---- MODULE Spec2Model ----
(***************************************************************************)
(* A model of rrm, a ROM-set auditor: the store (src/src/db.rs), the       *)
(* matcher, the scanner and the catalog commands (src/src/main.rs).        *)
(*                                                                         *)
(* The store is the record db of six relations (sets of rows).  The disk   *)
(* is the function disk from path to node.  Every command is one action    *)
(* that applies the whole handler, transaction included.                   *)
(***************************************************************************)
EXTENDS Integers, Sequences, FiniteSets, TLC

VARIABLES
    db,     \* the store: [dats, sets, roms, dirs, files, matches]
    disk,   \* the file system: path -> node
    last,   \* the last command run, its arguments and its outcome, the store
            \* before it, and for a scan the command that preceded it
    steps,  \* number of commands and disk changes so far
    changes \* number of disk changes so far

vars == <<db, disk, last, steps, changes>>

(***************************************************************************)
(* Bounds of the model.                                                    *)
(***************************************************************************)
MaxSteps == 4      \* commands and disk changes in one behaviour
MaxDiskChanges == 1   \* changes of the disk by the environment in one behaviour
MaxDats == 2       \* dats in the store at one time
MaxRoms == 2       \* roms of the catalogs the matcher is probed with
MaxGames == 2      \* game elements of the catalogs import is probed with
MaxGameRoms == 2   \* rom elements of one game of those catalogs

(***************************************************************************)
(* Strings.  A name or a path is a string; a character is a substring of   *)
(* length one.                                                             *)
(***************************************************************************)
CharAt(s, i) == SubSeq(s, i, i)

UpperAlphabet == "ABCDEFGHIJKLMNOPQRSTUVWXYZ"
LowerAlphabet == "abcdefghijklmnopqrstuvwxyz"

\* the lowercase letter of each uppercase letter
LowerOfUpper ==
    [c \in {CharAt(UpperAlphabet, i) : i \in 1..Len(UpperAlphabet)} |->
        CharAt(LowerAlphabet, CHOOSE i \in 1..Len(UpperAlphabet) : CharAt(UpperAlphabet, i) = c)]

\* u8::to_ascii_lowercase on one character
ToAsciiLowerChar(c) == IF c \in DOMAIN LowerOfUpper THEN LowerOfUpper[c] ELSE c

\* str::eq_ignore_ascii_case
eq_ignore_ascii_case(a, b) ==
    /\ Len(a) = Len(b)
    /\ \A i \in 1..Len(a) : ToAsciiLowerChar(CharAt(a, i)) = ToAsciiLowerChar(CharAt(b, i))

\* Option<T>
None == [some |-> FALSE, val |-> ""]
Some(v) == [some |-> TRUE, val |-> v]

\* positions of character c in s
Positions(s, c) == {i \in 1..Len(s) : CharAt(s, i) = c}
MaxOf(S) == CHOOSE m \in S : \A k \in S : k <= m
MinOf(S) == CHOOSE m \in S : \A k \in S : m <= k

\* Utf8Path::file_name: the last component of the path
file_name(p) ==
    LET sl == Positions(p, "/")
    IN  IF sl = {} THEN p ELSE SubSeq(p, MaxOf(sl) + 1, Len(p))

\* Utf8Path::parent, as a string
parent(p) ==
    LET sl == Positions(p, "/")
    IN  IF sl = {} THEN "" ELSE SubSeq(p, 1, MaxOf(sl) - 1)

\* Utf8Path::join
join(p, name) == p \o "/" \o name

\* Utf8Path::extension: what follows the last dot of the file name, if that
\* dot is not the first character
extension(p) ==
    LET f == file_name(p)
        dots == Positions(f, ".") \ {1}
    IN  IF dots = {} THEN None ELSE Some(SubSeq(f, MaxOf(dots) + 1, Len(f)))

\* Utf8Path::file_stem: what precedes the last dot of the file name
file_stem(p) ==
    LET f == file_name(p)
        dots == Positions(f, ".") \ {1}
    IN  IF dots = {} THEN f ELSE SubSeq(f, 1, MaxOf(dots) - 1)

\* Utf8Path::file_prefix: what precedes the first dot of the file name that
\* is not its first character
file_prefix(p) ==
    LET f == file_name(p)
        dots == Positions(f, ".") \ {1}
    IN  IF dots = {} THEN f ELSE SubSeq(f, 1, MinOf(dots) - 1)

(***************************************************************************)
(* Order of strings (Ord for str: byte order), over the characters used.   *)
(***************************************************************************)
AsciiTable == " ./0123456789ABCDEFGHIJKLMNOPQRSTUVWXYZ_abcdefghijklmnopqrstuvwxyz"
ByteRank ==
    [c \in {CharAt(AsciiTable, i) : i \in 1..Len(AsciiTable)} |->
        CHOOSE i \in 1..Len(AsciiTable) : CharAt(AsciiTable, i) = c]
ByteOf(c) == ByteRank[c]

StrLess(a, b) ==
    \E k \in 1..(Len(a) + 1) :
        /\ k <= Len(b)
        /\ \A j \in 1..(k - 1) : CharAt(a, j) = CharAt(b, j)
        /\ k = Len(a) + 1 \/ ByteOf(CharAt(a, k)) < ByteOf(CharAt(b, k))

(***************************************************************************)
(* The store.  A relation is a set of rows; a row id is the SQLite rowid   *)
(* of an INTEGER PRIMARY KEY column: one more than the largest id in the   *)
(* table.  parent_id 0 stands for NULL.                                    *)
(***************************************************************************)
EmptyDb == [dats |-> {}, sets |-> {}, roms |-> {}, dirs |-> {}, files |-> {}, matches |-> {}]

Ids(rel) == {r.id : r \in rel}

\* conn.last_insert_rowid() of the row about to be inserted
NextId(rel) == IF rel = {} THEN 1 ELSE MaxOf(Ids(rel)) + 1

\* the rows of a query in rowid order
SortById(S) ==
    [i \in 1..Cardinality(S) |-> CHOOSE r \in S : Cardinality({q \in S : q.id < r.id}) = i - 1]

\* the store with PRAGMA foreign_keys left OFF
ForeignKeysOff(d) == TRUE

\* FOREIGN KEY clauses of the tables, PRAGMA foreign_keys = ON
ForeignKeysHold(d) ==
    /\ \A s \in d.sets : s.dat_id \in Ids(d.dats)
    /\ \A r \in d.roms : r.dat_id \in Ids(d.dats) /\ r.set_id \in Ids(d.sets)
    /\ \A x \in d.dirs : x.dat_id \in Ids(d.dats) /\ (x.parent_id = 0 \/ x.parent_id \in Ids(d.dirs))
    /\ \A f \in d.files : f.dat_id \in Ids(d.dats) /\ f.dir_id \in Ids(d.dirs)
    /\ \A m \in d.matches :
          /\ m.dat_id \in Ids(d.dats)
          /\ m.file_id \in Ids(d.files)
          /\ m.rom_id \in Ids(d.roms)
          /\ m.set_id \in Ids(d.sets)

\* the constraints without UNIQUE(dir_id, name) on files
UniqueHoldsDirs(d) ==
    \A x, y \in d.dirs : (x.path = y.path /\ x.dat_id = y.dat_id) => x.id = y.id

\* UNIQUE(path, dat_id) on dirs, UNIQUE(dir_id, name) on files
UniqueHolds(d) ==
    /\ \A x, y \in d.dirs : (x.path = y.path /\ x.dat_id = y.dat_id) => x.id = y.id
    /\ \A f, g \in d.files : (f.dir_id = g.dir_id /\ f.name = g.name) => f.id = g.id

\* One SQL statement taking the store from d to d2: it fails, and changes
\* nothing, when d2 breaks a constraint.
Execute(d, d2) ==
    IF ForeignKeysHold(d2) /\ UniqueHolds(d2)
    THEN [ok |-> TRUE, db |-> d2]
    ELSE [ok |-> FALSE, db |-> d]

\* a transaction that keeps what a failed r wrote
TransactionNoRollback(d, r) == r

\* A transaction that began at store d and ran r: committed, or rolled back.
Transaction(d, r) == IF r.ok THEN r ELSE [ok |-> FALSE, db |-> d]

\* a savepoint that keeps what a failed r wrote
SavepointNoRollback(d, r) == r

\* A savepoint taken at store d around r: released, or rolled back to d.
Savepoint(d, r) == IF r.ok THEN r ELSE [ok |-> FALSE, db |-> d]

\* Insertable::insert for each table (the dat row is inserted in parse_dat_file)
insert_set(d, new) ==
    Execute(d, [d EXCEPT !.sets = @ \cup
        {[id |-> NextId(d.sets), dat_id |-> new.dat_id, name |-> new.name]}])

\* insert_rom that files every rom under the first set of the store
insert_rom_first_set(d, new) ==
    Execute(d, [d EXCEPT !.roms = @ \cup
        {[id |-> NextId(d.roms), dat_id |-> new.dat_id, set_id |-> MinOf(Ids(d.sets)),
          name |-> new.name, size |-> new.size, hash |-> new.hash]}])

insert_rom(d, new) ==
    Execute(d, [d EXCEPT !.roms = @ \cup
        {[id |-> NextId(d.roms), dat_id |-> new.dat_id, set_id |-> new.set_id,
          name |-> new.name, size |-> new.size, hash |-> new.hash]}])

\* insert_dir that records no parent
insert_dir_no_parent(d, new) ==
    Execute(d, [d EXCEPT !.dirs = @ \cup
        {[id |-> NextId(d.dirs), dat_id |-> new.dat_id, path |-> new.path, parent_id |-> 0]}])

insert_dir(d, new) ==
    Execute(d, [d EXCEPT !.dirs = @ \cup
        {[id |-> NextId(d.dirs), dat_id |-> new.dat_id, path |-> new.path,
          parent_id |-> new.parent_id]}])

insert_file(d, new) ==
    Execute(d, [d EXCEPT !.files = @ \cup
        {[id |-> NextId(d.files), dat_id |-> new.dat_id, dir_id |-> new.dir_id,
          name |-> new.name, size |-> new.size, hash |-> new.hash]}])

insert_match(d, new) ==
    Execute(d, [d EXCEPT !.matches = @ \cup
        {[id |-> NextId(d.matches), dat_id |-> new.dat_id, file_id |-> new.file_id,
          status |-> new.status, set_id |-> new.set_id, rom_id |-> new.rom_id]}])

\* FindableByName::find_by_name(conn, dat_id, name, exact = true) on sets
find_sets_by_name(d, dat_id, name) == {s \in d.sets : s.dat_id = dat_id /\ s.name = name}

\* FindableByName::find_by_name(conn, dat_id, name, exact = true) on roms
find_roms_by_name(d, dat_id, name) == {r \in d.roms : r.dat_id = dat_id /\ r.name = name}

\* RomRecord::get_by_hash
get_by_hash(d, dat_id, hash) == {r \in d.roms : r.dat_id = dat_id /\ r.hash = hash}

\* a lookup that finds no dir row
get_by_dat_path_none(d, dat_id, path) == {}

\* DirRecord::get_by_dat_path: the set of rows found (at most one)
get_by_dat_path(d, dat_id, path) == {x \in d.dirs : x.dat_id = dat_id /\ x.path = path}

\* DirRecord::get_children
get_children(d, dir_id) == {x \in d.dirs : x.parent_id = dir_id}

\* QueryableByDat::get_by_dat on dirs
get_dirs_by_dat(d, dat_id) == {x \in d.dirs : x.dat_id = dat_id}

\* FileRecord::get_by_dir
get_files(d, dir_id) == {f \in d.files : f.dir_id = dir_id}

\* a query that returns the first match row of the file, whatever its status
get_by_file_first(d, file_id, status) ==
    {m \in d.matches : /\ m.file_id = file_id
                        /\ \A n \in d.matches : n.file_id = file_id => m.id <= n.id}

\* MatchRecord::get_by_file_status
get_by_file_status(d, file_id, status) ==
    {m \in d.matches : m.file_id = file_id /\ m.status = status}

\* FileRecord::delete_files: DELETE FROM files WHERE dir_id = :dir_id
delete_files(d, dir_id) ==
    Execute(d, [d EXCEPT !.files = {f \in @ : f.dir_id # dir_id}])

\* Deletable::delete_by_id on files
delete_file_by_id(d, id) == Execute(d, [d EXCEPT !.files = {f \in @ : f.id # id}])

\* Deletable::delete_by_id on dirs
delete_dir_by_id(d, id) == Execute(d, [d EXCEPT !.dirs = {x \in @ : x.id # id}])

\* Deletable::delete_by_id on dats
delete_dat_by_id(d, id) == Execute(d, [d EXCEPT !.dats = {x \in @ : x.id # id}])

\* DeletableByDat::delete_by_dat for each table
delete_matches_by_dat(d, dat_id) ==
    Execute(d, [d EXCEPT !.matches = {m \in @ : m.dat_id # dat_id}])

delete_dirs_by_dat(d, dat_id) ==
    Execute(d, [d EXCEPT !.dirs = {x \in @ : x.dat_id # dat_id}])

delete_roms_by_dat(d, dat_id) ==
    Execute(d, [d EXCEPT !.roms = {r \in @ : r.dat_id # dat_id}])

delete_sets_by_dat(d, dat_id) ==
    Execute(d, [d EXCEPT !.sets = {s \in @ : s.dat_id # dat_id}])

\* relink_dirs left out
relink_dirs_skipped(d, old_dat_id, new_dat_id) == [ok |-> TRUE, db |-> d]

\* DirRecord::relink_dirs: UPDATE dirs SET dat_id = :new WHERE dat_id = :old
relink_dirs(d, old_dat_id, new_dat_id) ==
    Execute(d, [d EXCEPT !.dirs =
        {IF x.dat_id = old_dat_id THEN [x EXCEPT !.dat_id = new_dat_id] ELSE x : x \in @}])

\* MatchRecord::update: UPDATE matches SET status = :status WHERE id = :id
update_match(d, id, status) ==
    Execute(d, [d EXCEPT !.matches =
        {IF m.id = id THEN [m EXCEPT !.status = status] ELSE m : m \in @}])

(***************************************************************************)
(* The matcher.  MatchStatus is persisted as "match", "hash", "name".      *)
(***************************************************************************)
FileMatch(status, rom) == [status |-> status, set_id |-> rom.set_id, rom_id |-> rom.id]

\* Option<Vec<FileMatch>>: None is the empty sequence with some = FALSE
NoMatches == [some |-> FALSE, items |-> <<>>]
SomeMatches(items) == IF items = <<>> THEN NoMatches ELSE [some |-> TRUE, items |-> items]

\* the sets filter of match_exact, match_names and match_hashes
InMatchedSets(matched_sets, rom) == matched_sets = {} \/ rom.set_id \in matched_sets

\* the roms that pass the filter, as the Vec the iterator chain collects
\* (rowid order), each mapped to a FileMatch of the given status
CollectMatches(status, roms) ==
    LET v == SortById(roms)
    IN  SomeMatches([i \in 1..Len(v) |-> FileMatch(status, v[i])])

\* match_exact without the comparison of sizes
match_exact_any_size(file_size, hash, matched_sets, named_roms) ==
    CollectMatches("match", {q \in named_roms : InMatchedSets(matched_sets, q) /\ hash = q.hash})

match_exact(file_size, hash, matched_sets, named_roms) ==
    CollectMatches("match", {q \in named_roms : InMatchedSets(matched_sets, q)
                                                 /\ file_size = q.size /\ hash = q.hash})

match_names(matched_sets, named_roms) ==
    CollectMatches("name", {q \in named_roms : InMatchedSets(matched_sets, q)})

\* match_hashes without the sets filter
match_hashes_any_set(matched_sets, hash_roms) == CollectMatches("hash", hash_roms)

match_hashes(matched_sets, hash_roms) ==
    CollectMatches("hash", {q \in hash_roms : InMatchedSets(matched_sets, q)})

match_roms(d, dat_id, filename, file_size, hash, matched_sets) ==
    LET named_roms == find_roms_by_name(d, dat_id, filename)
        exact_matches == match_exact(file_size, hash, matched_sets, named_roms)
        hash_roms == get_by_hash(d, dat_id, hash)
    IN  IF named_roms # {} /\ exact_matches.some
        THEN exact_matches
        ELSE IF hash_roms = {}
             THEN match_names(matched_sets, named_roms)
             ELSE match_hashes(matched_sets, hash_roms)

(***************************************************************************)
(* File contents.  A content stands for a string of bytes; Sha1Of and      *)
(* SizeOf are the digest and length of those bytes, and ArchiveOf is what  *)
(* the zip layer reads from them.                                          *)
(***************************************************************************)
HashA == "da39"
HashB == "00ff"
HashC == "c0c0"       \* the digest of no content of the model

PlainContents == {"A", "B"}
ArchiveContents == {"zipB", "zipDup", "zipTxt", "zipBad"}
Contents == PlainContents \cup ArchiveContents

Sha1Of(c) ==
    CASE c = "A" -> HashA
      [] c = "B" -> HashB
      [] c = "zipB" -> "1111"
      [] c = "zipDup" -> "2222"
      [] c = "zipTxt" -> "3333"
      [] c = "zipBad" -> "4444"

SizeOf(c) ==
    CASE c = "A" -> 3
      [] c = "B" -> 3
      [] OTHER -> 9

\* util::calc_hash: (40 lowercase hex characters in the program, 4 here; byte count)
calc_hash(c) == [hash |-> Sha1Of(c), size |-> SizeOf(c)]

Member(name, c, isFile) == [name |-> name, content |-> c, is_file |-> isFile]

\* zip::ZipArchive::new and by_index: valid is FALSE when the bytes are not
\* a zip archive
ArchiveOf(c) ==
    CASE c = "zipB" -> [valid |-> TRUE, members |-> <<Member("R.bin", "B", TRUE)>>]
      [] c = "zipDup" -> [valid |-> TRUE,
                          members |-> <<Member("R.bin", "A", TRUE), Member("R.bin", "B", TRUE)>>]
      [] c = "zipTxt" -> [valid |-> TRUE,
                          members |-> <<Member("d/", "A", FALSE), Member("a.TXT", "A", TRUE),
                                        Member("O.bin", "A", TRUE)>>]
      [] OTHER -> [valid |-> FALSE, members |-> <<>>]

(***************************************************************************)
(* The disk: a node for every path of FsPaths.                             *)
(***************************************************************************)
Root == "/r"
SubDir == "/r/s"
SubSubDir == "/r/s/t"

DirPaths == {Root, SubDir, SubSubDir}
LoosePaths == {"/r/O.bin", "/r/R.bin", "/r/a.TXT", "/r/s/R.bin", "/r/s/O.bin"}
ZipPaths == {"/r/G1.zip", "/r/G.1.zip"}
FsPaths == DirPaths \cup LoosePaths \cup ZipPaths

(***************************************************************************)
(* What the scanner asks of a path or name.  PathFactsOf holds the answers *)
(* for the strings of the model, computed once by the operators above.     *)
(***************************************************************************)
MemberNames ==
    UNION {{ArchiveOf(c).members[i].name : i \in 1..Len(ArchiveOf(c).members)} : c \in ArchiveContents}

KnownStrings == FsPaths \cup {file_name(p) : p \in FsPaths} \cup MemberNames

PathFacts(p) ==
    [file_name |-> file_name(p),
     parent |-> parent(p),
     extension |-> extension(p),
     file_prefix |-> file_prefix(p),
     \* util::is_hidden_file (not windows)
     hidden |-> Len(file_name(p)) > 0 /\ CharAt(file_name(p), 1) = ".",
     \* path.extension().is_some_and(|ext| ext.eq_ignore_ascii_case("zip"))
     zip |-> extension(p).some /\ eq_ignore_ascii_case(extension(p).val, "zip")]

PathFactsOf == [p \in KnownStrings |-> PathFacts(p)]

Facts(p) == IF p \in KnownStrings THEN PathFactsOf[p] ELSE PathFacts(p)

is_hidden_file(p) == Facts(p).hidden
is_zip_path(p) == Facts(p).zip

\* path.extension().map(|ext| exclude.iter().any(|e| ext.eq_ignore_ascii_case(e))).unwrap_or_default()
\* an exclusion test that compares the extension as written
is_excluded_as_written(p, exclude) ==
    LET ext == Facts(p).extension
    IN  ext.some /\ ext.val \in exclude

is_excluded(p, exclude) ==
    LET ext == Facts(p).extension
    IN  ext.some /\ \E e \in exclude : eq_ignore_ascii_case(ext.val, e)

\* the rank of each string of the model in the order of StrLess
StrRank == [x \in KnownStrings |-> Cardinality({y \in KnownStrings : StrLess(y, x)})]

StrLt(a, b) ==
    IF a \in KnownStrings /\ b \in KnownStrings THEN StrRank[a] < StrRank[b] ELSE StrLess(a, b)

\* the strings of a set in ascending order (BTreeSet, BTreeMap keys)
SortStrings(S) ==
    [i \in 1..Cardinality(S) |-> CHOOSE x \in S : Cardinality({y \in S : StrLt(y, x)}) = i - 1]

\* the rows of a query ORDER BY name (rows of one name in rowid order)
SortByName(S) ==
    [i \in 1..Cardinality(S) |-> CHOOSE r \in S :
        Cardinality({q \in S : StrLt(q.name, r.name) \/ (q.name = r.name /\ q.id < r.id)}) = i - 1]

NoNode == [kind |-> "none", content |-> ""]
DirNode == [kind |-> "dir", content |-> ""]
FileNode(c) == [kind |-> "file", content |-> c]

\* Utf8Path::is_dir, Utf8Path::is_file, Utf8Path::exists
is_dir(fs, p) == p \in DOMAIN fs /\ fs[p].kind = "dir"
is_file(fs, p) == p \in DOMAIN fs /\ fs[p].kind = "file"

\* Utf8Path::read_dir_utf8: the entries of a directory, in an order the file
\* system chooses: ascending or descending by name here
read_dir(fs, p, order) ==
    LET names == SortStrings({q \in DOMAIN fs : Facts(q).parent = p /\ fs[q].kind # "none"})
        n == Len(names)
    IN  IF order = "asc" THEN names ELSE [i \in 1..n |-> names[n + 1 - i]]

\* p lies below directory q
IsBelow(p, q) == Len(p) > Len(q) /\ SubSeq(p, 1, Len(q) + 1) = q \o "/"

DiskWith(entries) ==
    [p \in FsPaths |-> IF p \in DOMAIN entries THEN entries[p] ELSE NoNode]

(***************************************************************************)
(* Reference catalogs: the XML documents given to import and update.  An   *)
(* absent element text or attribute is None.                               *)
(***************************************************************************)
Header(name, description, version, author) ==
    [name |-> name, description |-> description, version |-> version, author |-> author]
Rom(name, size, sha1) == [name |-> name, size |-> size, sha1 |-> sha1]
Game(name, roms) == [name |-> name, roms |-> roms]
\* parses: the file can be read and is well-formed XML
Document(has_header, header, games) ==
    [parses |-> TRUE, has_header |-> has_header, header |-> header, games |-> games]

FullHeader == Header(Some("X"), Some("d"), Some("1"), Some("a"))

\* two sets, each with a rom R.bin, of different hashes
CatTwo ==
    Document(TRUE, FullHeader,
        <<Game(Some("G1"), <<Rom(Some("R.bin"), Some("3"), Some(HashC))>>),
          Game(Some("G2"), <<Rom(Some("R.bin"), Some("3"), Some(HashB))>>)>>)

\* a set whose name holds a dot, and a rom whose declared size is not the
\* size of the bytes with its hash
CatDot ==
    Document(TRUE, FullHeader,
        <<Game(Some("G.1"), <<Rom(Some("R.bin"), Some("3"), Some(HashA))>>),
          Game(Some("G2"), <<Rom(Some("O.bin"), Some("4"), Some(HashB))>>)>>)

\* a catalog that fails after its dat, its first set and its first rom are
\* inserted: the second rom has no size
CatBad ==
    Document(TRUE, FullHeader,
        <<Game(Some("G1"), <<Rom(Some("R.bin"), Some("3"), Some(HashA)),
                             Rom(Some("O.bin"), None, Some(HashB))>>)>>)

Catalogs == {CatTwo, CatDot, CatBad}

Digits == "0123456789"
IsDigit(c) == \E i \in 1..Len(Digits) : CharAt(Digits, i) = c
DigitValue(c) == (CHOOSE i \in 1..Len(Digits) : CharAt(Digits, i) = c) - 1

RECURSIVE DecimalValue(_)
DecimalValue(s) ==
    IF s = "" THEN 0
    ELSE 10 * DecimalValue(SubSeq(s, 1, Len(s) - 1)) + DigitValue(CharAt(s, Len(s)))

\* str::parse::<u64>, for the sizes of the catalogs above (at most 9 digits)
parse_u64(s) ==
    LET t == IF Len(s) > 0 /\ CharAt(s, 1) = "+" THEN SubSeq(s, 2, Len(s)) ELSE s
    IN  IF Len(t) = 0 \/ Len(t) > 9 \/ \E i \in 1..Len(t) : ~IsDigit(CharAt(t, i))
        THEN [ok |-> FALSE, val |-> 0]
        ELSE [ok |-> TRUE, val |-> DecimalValue(t)]

\* the loop over the rom elements of one game, from rom i on
RECURSIVE InsertRoms(_, _, _, _, _)
InsertRoms(d, dat_id, set_id, roms, i) ==
    IF i > Len(roms) THEN [ok |-> TRUE, db |-> d]
    ELSE LET rom == roms[i]
             Inserted(r) == IF ~r.ok THEN r ELSE InsertRoms(r.db, dat_id, set_id, roms, i + 1)
         IN  IF ~rom.name.some \/ ~rom.size.some \/ ~rom.sha1.some \/ ~parse_u64(rom.size.val).ok
             THEN [ok |-> FALSE, db |-> d]
             ELSE Inserted(insert_rom(d, [dat_id |-> dat_id, set_id |-> set_id,
                                          name |-> rom.name.val,
                                          size |-> parse_u64(rom.size.val).val,
                                          hash |-> rom.sha1.val]))
\* the loop over the game elements, from game i on
RECURSIVE InsertGames(_, _, _, _)
InsertGames(d, dat_id, games, i) ==
    IF i > Len(games) THEN [ok |-> TRUE, db |-> d]
    ELSE LET game == games[i]
             set_id == NextId(d.sets)
             Filled(q) == IF ~q.ok THEN q ELSE InsertGames(q.db, dat_id, games, i + 1)
             Inserted(r) == IF ~r.ok THEN r
                            ELSE Filled(InsertRoms(r.db, dat_id, set_id, game.roms, 1))
         IN  IF ~game.name.some THEN [ok |-> FALSE, db |-> d]
             ELSE Inserted(insert_set(d, [dat_id |-> dat_id, name |-> game.name.val]))
\* parse_dat_file that takes an absent header or header text for empty text
parse_dat_file_any_header(d, doc) ==
    IF ~doc.parses THEN [ok |-> FALSE, db |-> d, dat_id |-> 0]
    ELSE LET dat_id == NextId(d.dats)
             Filled(q) == [ok |-> q.ok, db |-> q.db, dat_id |-> dat_id]
         IN  Filled(InsertGames([d EXCEPT !.dats = @ \cup
                         {[id |-> dat_id, name |-> doc.header.name.val,
                           description |-> doc.header.description.val,
                           version |-> doc.header.version.val,
                           author |-> doc.header.author.val, hash_type |-> "sha1"]}],
                     dat_id, doc.games, 1))

\* parse_dat_file: on failure db holds what was inserted before the failure
parse_dat_file(d, doc) ==
    IF ~doc.parses \/ ~doc.has_header
       \/ ~doc.header.name.some \/ ~doc.header.description.some
       \/ ~doc.header.version.some \/ ~doc.header.author.some
    THEN [ok |-> FALSE, db |-> d, dat_id |-> 0]
    ELSE LET dat_id == NextId(d.dats)
             Filled(q) == [ok |-> q.ok, db |-> q.db, dat_id |-> dat_id]
             Inserted(r) == IF ~r.ok THEN [ok |-> FALSE, db |-> r.db, dat_id |-> 0]
                            ELSE Filled(InsertGames(r.db, dat_id, doc.games, 1))
         IN  Inserted(Execute(d, [d EXCEPT !.dats = @ \cup
                         {[id |-> dat_id, name |-> doc.header.name.val,
                           description |-> doc.header.description.val,
                           version |-> doc.header.version.val,
                           author |-> doc.header.author.val, hash_type |-> "sha1"]}]))
\* import_dat with no transaction around parse_dat_file
import_dat_no_rollback(d, doc) == parse_dat_file(d, doc)

\* import_dat: one transaction, committed only when parse_dat_file succeeds
import_dat(d, doc) ==
    LET Commit(r) == IF r.ok THEN r ELSE [ok |-> FALSE, db |-> d, dat_id |-> 0]
    IN  Commit(parse_dat_file(d, doc))
(***************************************************************************)
(* The scanner.  An operator that can fail returns [ok, db]: db is the     *)
(* store as the failing call left it; the caller rolls back or goes on.    *)
(* ctx holds what a scan passes down unchanged:                            *)
(*   [fs, dat_id, exclude, recursive, order].                              *)
(***************************************************************************)
\* match_sets that finds no set
match_sets_none(d, dat_id, path) == {}

\* match_sets: the sets named like the archive, by Utf8Path::file_prefix
match_sets(d, dat_id, path) == Ids(find_sets_by_name(d, dat_id, Facts(path).file_prefix))

\* the loop of insert_matches over the items of the matcher, from item i on
RECURSIVE InsertMatchItems(_, _, _, _, _)
InsertMatchItems(d, dat_id, file_id, items, i) ==
    IF i > Len(items) THEN [ok |-> TRUE, db |-> d]
    ELSE LET Inserted(r) == IF ~r.ok THEN r
                            ELSE InsertMatchItems(r.db, dat_id, file_id, items, i + 1)
         IN  Inserted(insert_match(d, [dat_id |-> dat_id, file_id |-> file_id,
                                       status |-> items[i].status,
                                       set_id |-> items[i].set_id, rom_id |-> items[i].rom_id]))
insert_matches(d, dat_id, file, matched_sets) ==
    LET Insert(matched) ==
            IF matched.some
            THEN InsertMatchItems(d, dat_id, file.id, matched.items, 1)
            ELSE [ok |-> TRUE, db |-> d]
    IN  Insert(match_roms(d, dat_id, file.name, file.size, file.hash, matched_sets))
insert_files_and_matches(d, dat_id, dir_id, name, file_size, hash, matched_sets) ==
    LET file == [id |-> NextId(d.files), dat_id |-> dat_id, dir_id |-> dir_id,
                 name |-> name, size |-> file_size, hash |-> hash]
        Inserted(r) == IF ~r.ok THEN r ELSE insert_matches(r.db, dat_id, file, matched_sets)
    IN  Inserted(insert_file(d, file))
\* scan_file: a loose file is matched with no set restriction
scan_file(d, fs, dat_id, dir_id, path, filename) ==
    IF ~is_file(fs, path) THEN [ok |-> FALSE, db |-> d]
    ELSE insert_files_and_matches(d, dat_id, dir_id, filename,
                                  SizeOf(fs[path].content), calc_hash(fs[path].content).hash, {})

\* the loop of scan_zip_file over the members of the archive, from member i on
RECURSIVE ScanMembers(_, _, _, _, _, _, _)
ScanMembers(d, dat_id, dir_id, exclude, matched, members, i) ==
    IF i > Len(members) THEN [ok |-> TRUE, db |-> d]
    ELSE LET m == members[i]
             h == calc_hash(m.content)
             Inserted(r) == IF ~r.ok THEN r
                            ELSE ScanMembers(r.db, dat_id, dir_id, exclude, matched, members, i + 1)
         IN  IF ~m.is_file \/ is_excluded(m.name, exclude)
             THEN ScanMembers(d, dat_id, dir_id, exclude, matched, members, i + 1)
             ELSE Inserted(insert_files_and_matches(d, dat_id, dir_id, m.name, h.size, h.hash,
                                                    matched))
\* scan_zip_file past the test for an archive scanned before: the dir row is
\* reused, its files wiped, or inserted; then the members are read
ScanArchive(d, fs, dat_id, path, exclude, parent_id) ==
    LET maybe_dir == get_by_dat_path(d, dat_id, path)
        dir_id == IF maybe_dir # {} THEN (CHOOSE x \in maybe_dir : TRUE).id ELSE NextId(d.dirs)
        archive == ArchiveOf(fs[path].content)
        Prepared(r) ==
            IF ~r.ok THEN r
            ELSE IF ~is_file(fs, path) \/ ~archive.valid THEN [ok |-> FALSE, db |-> r.db]
            ELSE ScanMembers(r.db, dat_id, dir_id, exclude, match_sets(r.db, dat_id, path),
                             archive.members, 1)
    IN  Prepared(IF maybe_dir # {}
                 THEN delete_files(d, dir_id)
                 ELSE insert_dir(d, [dat_id |-> dat_id, path |-> path, parent_id |-> parent_id]))
\* scan_zip_file that scans again an archive scanned before
scan_zip_file_again(d, fs, dat_id, path, incremental, exclude, parent_id) ==
    ScanArchive(d, fs, dat_id, path, exclude, parent_id)

scan_zip_file(d, fs, dat_id, path, incremental, exclude, parent_id) ==
    IF incremental /\ get_by_dat_path(d, dat_id, path) # {}
    THEN [ok |-> TRUE, db |-> d]
    ELSE ScanArchive(d, fs, dat_id, path, exclude, parent_id)

\* a deletion pass that deletes the rows of every child dir path left, on
\* disk or not
RECURSIVE DeleteLeftDirsOnDisk(_, _, _, _, _)
DeleteLeftDirsOnDisk(d, ctx, incremental, paths, i) ==
    IF i > Len(paths) THEN d
    ELSE LET found == get_by_dat_path(d, ctx.dat_id, paths[i]) IN
         IF found = {}
         THEN DeleteLeftDirsOnDisk(d, ctx, incremental, paths, i + 1)
         ELSE LET dir == CHOOSE x \in found : TRUE
                  d1 == delete_files(d, dir.id).db
                  d2 == delete_dir_by_id(d1, dir.id).db
              IN  DeleteLeftDirsOnDisk(d2, ctx, incremental, paths, i + 1)

\* the first loop of the deletion pass, over the child dir paths left, from path i on
RECURSIVE DeleteLeftDirs(_, _, _, _, _)
DeleteLeftDirs(d, ctx, incremental, paths, i) ==
    IF i > Len(paths) THEN d
    ELSE LET found == get_by_dat_path(d, ctx.dat_id, paths[i]) IN
         IF (incremental /\ is_dir(ctx.fs, paths[i])) \/ found = {}
         THEN DeleteLeftDirs(d, ctx, incremental, paths, i + 1)
         ELSE LET dir == CHOOSE x \in found : TRUE
                  d1 == delete_files(d, dir.id).db
                  d2 == delete_dir_by_id(d1, dir.id).db
              IN  DeleteLeftDirs(d2, ctx, incremental, paths, i + 1)

\* the second loop of the deletion pass, over the file rows left (by name,
\* then in query order), from row i on
RECURSIVE DeleteLeftFiles(_, _, _)
DeleteLeftFiles(d, rows, i) ==
    IF i > Len(rows) THEN d
    ELSE DeleteLeftFiles(delete_file_by_id(d, rows[i].id).db, rows, i + 1)

RECURSIVE scan_directory(_, _, _, _, _)
RECURSIVE ScanEntries(_, _, _, _, _, _, _)

\* scan_directory.  Returns [ok, db].
scan_directory(d, ctx, scan_path, incremental_arg, parent_id) ==
    LET found == get_by_dat_path(d, ctx.dat_id, scan_path)
        dir_id == IF found # {} THEN (CHOOSE x \in found : TRUE).id ELSE NextId(d.dirs)
        incremental == found # {} /\ incremental_arg
        Finish(loop) ==
            IF ~loop.ok THEN [ok |-> FALSE, db |-> loop.db]
            ELSE [ok |-> TRUE,
                  db |-> DeleteLeftFiles(DeleteLeftDirs(loop.db, ctx, incremental,
                                                        SortStrings(loop.existing.paths), 1),
                                         SortByName(loop.existing.files), 1)]
        Prepared(r) ==
            IF ~r.ok THEN r
            ELSE Finish(ScanEntries(r.db, ctx, dir_id, incremental,
                                    read_dir(ctx.fs, scan_path, ctx.order), 1,
                                    [paths |-> {x.path : x \in get_children(r.db, dir_id)},
                                     files |-> get_files(r.db, dir_id)]))
    IN  Prepared(IF found # {}
                 THEN IF incremental_arg THEN [ok |-> TRUE, db |-> d]
                      ELSE delete_files(d, dir_id)
                 ELSE insert_dir(d, [dat_id |-> ctx.dat_id, path |-> scan_path,
                                     parent_id |-> parent_id]))
\* the loop of scan_directory over the entries of the directory, from entry
\* i on.  existing = [paths, files]: the child dir paths and the file rows
\* not met on disk so far.  Returns [ok, db, existing].
ScanEntries(d, ctx, dir_id, incremental, entries, i, existing) ==
    IF i > Len(entries) THEN [ok |-> TRUE, db |-> d, existing |-> existing]
    ELSE
    LET path == entries[i]
        Skip == ScanEntries(d, ctx, dir_id, incremental, entries, i + 1, existing)
        Scanned(d1) == ScanEntries(d1, ctx, dir_id, incremental, entries, i + 1,
                                   [existing EXCEPT !.paths = @ \ {path}])
        AfterDir(r) == IF r.ok THEN Scanned(r.db)
                       ELSE [ok |-> FALSE, db |-> r.db, existing |-> existing]
        AfterZip(r) == IF r.ok THEN Scanned(r.db)
                       ELSE ScanEntries(r.db, ctx, dir_id, incremental, entries, i + 1, existing)
    IN  IF is_hidden_file(path) THEN Skip
        ELSE IF ctx.recursive /\ is_dir(ctx.fs, path)
        THEN AfterDir(scan_directory(d, ctx, path, incremental, dir_id))
        ELSE IF ~is_file(ctx.fs, path) THEN Skip
        ELSE IF is_excluded(path, ctx.exclude) THEN Skip
        ELSE IF is_zip_path(path)
        THEN AfterZip(Savepoint(d, scan_zip_file(d, ctx.fs, ctx.dat_id, path, incremental,
                                                 ctx.exclude, dir_id)))
        ELSE LET filename == Facts(path).file_name
                 exists == \E f \in existing.files : f.name = filename
                 rest == [existing EXCEPT !.files = {f \in @ : f.name # filename}]
             IN  IF exists /\ incremental
                 THEN ScanEntries(d, ctx, dir_id, incremental, entries, i + 1, rest)
                 ELSE ScanEntries(scan_file(d, ctx.fs, ctx.dat_id, dir_id, path, filename).db,
                                  ctx, dir_id, incremental, entries, i + 1, rest)
\* scan_files: one transaction around scan_directory
scan_files(d, fs, dat_id, scan_path, exclude, recursive, incremental, order) ==
    Transaction(d, scan_directory(d, [fs |-> fs, dat_id |-> dat_id, exclude |-> exclude,
                                      recursive |-> recursive, order |-> order],
                                  scan_path, incremental, 0))
(***************************************************************************)
(* The catalog commands update and remove, and rename.                     *)
(***************************************************************************)
\* the loop of delete_dat over the dirs of the dat, from dir i on
RECURSIVE DeleteFilesOfDirs(_, _, _)
DeleteFilesOfDirs(d, dirs, i) ==
    IF i > Len(dirs) THEN [ok |-> TRUE, db |-> d]
    ELSE LET Deleted(r) == IF ~r.ok THEN r ELSE DeleteFilesOfDirs(r.db, dirs, i + 1)
         IN  Deleted(delete_files(d, dirs[i].id))
\* delete_dat: one transaction
delete_dat(d, dat_id) ==
    LET Sets(r) == IF ~r.ok THEN r ELSE delete_dat_by_id(r.db, dat_id)
        Roms(r) == IF ~r.ok THEN r ELSE Sets(delete_sets_by_dat(r.db, dat_id))
        Dirs(r) == IF ~r.ok THEN r ELSE Roms(delete_roms_by_dat(r.db, dat_id))
        Files(r) == IF ~r.ok THEN r ELSE Dirs(delete_dirs_by_dat(r.db, dat_id))
    IN  Transaction(d, Files(DeleteFilesOfDirs(d, SortById(get_dirs_by_dat(d, dat_id)), 1)))
\* the loop of update_dat over the files of one archive dir, from file i on
RECURSIVE RematchFiles(_, _, _, _, _)
RematchFiles(d, dat_id, matched_sets, files, i) ==
    IF i > Len(files) THEN [ok |-> TRUE, db |-> d]
    ELSE LET Inserted(r) == IF ~r.ok THEN r
                            ELSE RematchFiles(r.db, dat_id, matched_sets, files, i + 1)
         IN  Inserted(insert_matches(d, dat_id, files[i], matched_sets))
\* the loop of update_dat over the dirs of the old dat, from dir i on
RECURSIVE RematchDirs(_, _, _, _)
RematchDirs(d, dat_id, dirs, i) ==
    IF i > Len(dirs) THEN [ok |-> TRUE, db |-> d]
    ELSE LET Rematched(r) == IF ~r.ok THEN r ELSE RematchDirs(r.db, dat_id, dirs, i + 1)
         IN  IF is_zip_path(dirs[i].path)
             THEN Rematched(RematchFiles(d, dat_id, match_sets(d, dat_id, dirs[i].path),
                                         SortByName(get_files(d, dirs[i].id)), 1))
             ELSE RematchDirs(d, dat_id, dirs, i + 1)
\* update_dat: a first transaction imports, rematches and relinks; then
\* delete_dat runs in a transaction of its own.  committed tells whether the
\* first transaction was committed.
update_dat(d, doc, old_dat_id) ==
    LET Failed == [ok |-> FALSE, db |-> d, dat_id |-> 0, committed |-> FALSE]
        Removed(r, dat_id) == [ok |-> r.ok, db |-> r.db, dat_id |-> dat_id, committed |-> TRUE]
        Relinked(r, dat_id) ==
            IF ~r.ok THEN Failed ELSE Removed(delete_dat(r.db, old_dat_id), dat_id)
        Rematched(r, dat_id) ==
            IF ~r.ok THEN Failed ELSE Relinked(relink_dirs(r.db, old_dat_id, dat_id), dat_id)
        Unmatched(r, dat_id) ==
            IF ~r.ok THEN Failed
            ELSE Rematched(RematchDirs(r.db, dat_id, SortById(get_dirs_by_dat(r.db, old_dat_id)), 1),
                           dat_id)
        Imported(r) ==
            IF ~r.ok THEN Failed
            ELSE Unmatched(delete_matches_by_dat(r.db, old_dat_id), r.dat_id)
    IN  Imported(parse_dat_file(d, doc))
\* std::fs::rename of a file: fails when from does not exist or when to is a
\* directory or lies outside the paths of the model; replaces an existing to
fs_rename(fs, from, to) ==
    IF ~is_file(fs, from) \/ to \notin DOMAIN fs \/ is_dir(fs, to) \/ ~is_dir(fs, Facts(to).parent)
    THEN [ok |-> FALSE, fs |-> fs]
    ELSE IF from = to THEN [ok |-> TRUE, fs |-> fs]
    ELSE [ok |-> TRUE, fs |-> [fs EXCEPT ![to] = fs[from], ![from] = NoNode]]

\* the files of a dir that rename acts on: those with exactly one match of
\* status hash (one per name, the keys of matches_by_name in order)
RenameCandidates(d, dir_id) ==
    LET single == {f \in get_files(d, dir_id) : Cardinality(get_by_file_status(d, f.id, "hash")) = 1}
    IN  SortByName({f \in single : Cardinality({g \in single : g.name = f.name}) = 1})

\* the loop of rename_files over the candidates of one dir, from file i on.
\* Returns [db, fs].
RECURSIVE RenameInDir(_, _, _, _, _)
RenameInDir(d, fs, path, files, i) ==
    IF i > Len(files) THEN [db |-> d, fs |-> fs]
    ELSE LET file == files[i]
             file_match == CHOOSE m \in get_by_file_status(d, file.id, "hash") : TRUE
             rom == CHOOSE r \in d.roms : r.id = file_match.rom_id
             updated == update_match(d, file_match.id, "match")
             moved == fs_rename(fs, join(path, file.name), join(path, rom.name))
         IN  IF updated.ok /\ moved.ok
             THEN RenameInDir(updated.db, moved.fs, path, files, i + 1)
             ELSE RenameInDir(d, fs, path, files, i + 1)     \* sp.rollback()

\* the loop of rename_files over the dirs of the dat, from dir i on
RECURSIVE RenameInDirs(_, _, _, _)
RenameInDirs(d, fs, dirs, i) ==
    IF i > Len(dirs) THEN [db |-> d, fs |-> fs]
    ELSE IF is_zip_path(dirs[i].path) THEN RenameInDirs(d, fs, dirs, i + 1)
    ELSE LET r == RenameInDir(d, fs, dirs[i].path, RenameCandidates(d, dirs[i].id), 1)
         IN  RenameInDirs(r.db, r.fs, dirs, i + 1)

\* rename_files: one transaction, a savepoint for each file
rename_files(d, fs, dat_id) == RenameInDirs(d, fs, SortById(get_dirs_by_dat(d, dat_id)), 1)

(***************************************************************************)
(* The commands, as actions.                                               *)
(***************************************************************************)
DefaultExclude == {"m3u", "dat", "txt"}
ExcludeLists == {DefaultExclude, {}, {"ZIP"}}
Orders == {"asc", "desc"}
ScanPaths == {Root, SubDir}

\* the disks a behaviour starts from
InitDisks ==
    { DiskWith([p \in {Root} |-> DirNode]),
      DiskWith(("/r" :> DirNode) @@ ("/r/R.bin" :> FileNode("A")) @@ ("/r/O.bin" :> FileNode("B"))
               @@ ("/r/a.TXT" :> FileNode("A"))),
      DiskWith(("/r" :> DirNode) @@ ("/r/R.bin" :> FileNode("B")) @@ ("/r/O.bin" :> FileNode("A"))),
      DiskWith(("/r" :> DirNode) @@ ("/r/G1.zip" :> FileNode("zipB"))
               @@ ("/r/G.1.zip" :> FileNode("zipB"))),
      DiskWith(("/r" :> DirNode) @@ ("/r/G1.zip" :> FileNode("zipTxt"))
               @@ ("/r/R.bin" :> FileNode("A"))),
      DiskWith(("/r" :> DirNode) @@ ("/r/s" :> DirNode) @@ ("/r/s/R.bin" :> FileNode("A"))
               @@ ("/r/s/t" :> DirNode)),
      DiskWith(("/r" :> DirNode) @@ ("/r/R.bin" :> FileNode("B")) @@ ("/r/s" :> DirNode)
               @@ ("/r/s/O.bin" :> FileNode("A"))) }

Init ==
    /\ db = EmptyDb
    /\ disk \in InitDisks
    /\ last = [op |-> "init"]
    /\ steps = 0
    /\ changes = 0

\* The disk a scan reads first is one of InitDisks; the environment changes
\* the disk once something is indexed, MaxDiskChanges times at most.
EnvMayAct == steps < MaxSteps /\ db.dirs # {} /\ changes < MaxDiskChanges

\* data import <dat_file>
Import(doc) ==
    /\ steps < MaxSteps
    /\ Cardinality(db.dats) < MaxDats
    /\ \E r \in {import_dat(db, doc)} :
           /\ db' = r.db
           /\ last' = [op |-> "import", ok |-> r.ok, dat_id |-> r.dat_id,
                       doc |-> doc, before |-> db]
    /\ steps' = steps + 1
    /\ UNCHANGED <<disk, changes>>

\* data update <dat_file>, with dat old selected
Update(doc, old) ==
    /\ steps < MaxSteps
    /\ old \in Ids(db.dats)
    /\ \E r \in {update_dat(db, doc, old)} :
           /\ db' = r.db
           /\ last' = [op |-> "update", ok |-> r.ok, old |-> old, dat_id |-> r.dat_id,
                       committed |-> r.committed, doc |-> doc, before |-> db]
    /\ steps' = steps + 1
    /\ UNCHANGED <<disk, changes>>

\* data remove, with dat dat_id selected
Remove(dat_id) ==
    /\ steps < MaxSteps
    /\ dat_id \in Ids(db.dats)
    /\ \E r \in {delete_dat(db, dat_id)} :
           /\ db' = r.db
           /\ last' = [op |-> "remove", ok |-> r.ok, dat_id |-> dat_id, before |-> db]
    /\ steps' = steps + 1
    /\ UNCHANGED <<disk, changes>>

\* files scan [--exclude ..] [-R] [--full] <path>, with dat dat_id selected
Scan(dat_id, path, exclude, recursive, incremental, order) ==
    /\ steps < MaxSteps
    /\ dat_id \in Ids(db.dats)
    /\ is_dir(disk, path)
    /\ \E r \in {scan_files(db, disk, dat_id, path, exclude, recursive, incremental, order)} :
           /\ db' = r.db
           /\ last' = [op |-> "scan", ok |-> r.ok, dat_id |-> dat_id, path |-> path,
                       exclude |-> exclude, recursive |-> recursive, incremental |-> incremental,
                       before |-> db,
                       prev |-> IF last.op = "scan" THEN [last EXCEPT !.before = {}, !.prev = {}]
                                ELSE [op |-> last.op]]
    /\ steps' = steps + 1
    /\ UNCHANGED <<disk, changes>>

\* files rename, with dat dat_id selected
Rename(dat_id) ==
    /\ steps < MaxSteps
    /\ dat_id \in Ids(db.dats)
    /\ \E r \in {rename_files(db, disk, dat_id)} :
           /\ db' = r.db
           /\ disk' = r.fs
    /\ last' = [op |-> "rename", ok |-> TRUE, dat_id |-> dat_id, before |-> db,
                disk_before |-> disk]
    /\ steps' = steps + 1
    /\ UNCHANGED changes

\* the environment writes a file
WriteFile(p, c) ==
    /\ EnvMayAct
    /\ \/ p \in LoosePaths /\ c \in PlainContents
       \/ p \in ZipPaths /\ c \in ArchiveContents
    /\ is_dir(disk, Facts(p).parent)
    /\ disk[p] # FileNode(c)
    /\ disk' = [disk EXCEPT ![p] = FileNode(c)]
    /\ last' = [op |-> "disk"]
    /\ steps' = steps + 1
    /\ changes' = changes + 1
    /\ UNCHANGED db

\* the environment removes a file, or a directory and all below it
RemoveNode(p) ==
    /\ EnvMayAct
    /\ p # Root
    /\ disk[p].kind # "none"
    /\ disk' = [q \in DOMAIN disk |-> IF q = p \/ IsBelow(q, p) THEN NoNode ELSE disk[q]]
    /\ last' = [op |-> "disk"]
    /\ steps' = steps + 1
    /\ changes' = changes + 1
    /\ UNCHANGED db

\* the environment makes a directory
MakeDir(p) ==
    /\ EnvMayAct
    /\ p \in DirPaths
    /\ disk[p].kind = "none"
    /\ is_dir(disk, Facts(p).parent)
    /\ disk' = [disk EXCEPT ![p] = DirNode]
    /\ last' = [op |-> "disk"]
    /\ steps' = steps + 1
    /\ changes' = changes + 1
    /\ UNCHANGED db

Next ==
    \/ \E doc \in Catalogs : Import(doc)
    \/ \E doc \in Catalogs, old \in Ids(db.dats) : Update(doc, old)
    \/ \E dat_id \in Ids(db.dats) : Remove(dat_id)
    \/ \E dat_id \in Ids(db.dats), path \in ScanPaths, exclude \in ExcludeLists,
          recursive \in BOOLEAN, incremental \in BOOLEAN, order \in Orders :
          Scan(dat_id, path, exclude, recursive, incremental, order)
    \/ \E dat_id \in Ids(db.dats) : Rename(dat_id)
    \/ \E p \in FsPaths, c \in Contents : WriteFile(p, c)
    \/ \E p \in FsPaths : RemoveNode(p)
    \/ \E p \in DirPaths : MakeDir(p)

Spec == Init /\ [][Next]_vars

(***************************************************************************)
(* Properties of the store, under Spec.                                    *)
(***************************************************************************)
RowOf(rel, id) == CHOOSE r \in rel : r.id = id
MatchesOf(f) == {m \in db.matches : m.file_id = f.id}

\* C1: for every match row m, the dat of the dir of m's file, m's dat, the
\* dat of m's set and the dat of m's rom are one dat, and m's rom belongs to
\* m's set.
C1_MatchIntegrity ==
    \A m \in db.matches :
        /\ m.file_id \in Ids(db.files) /\ m.set_id \in Ids(db.sets) /\ m.rom_id \in Ids(db.roms)
        /\ RowOf(db.files, m.file_id).dir_id \in Ids(db.dirs)
        /\ RowOf(db.dirs, RowOf(db.files, m.file_id).dir_id).dat_id = m.dat_id
        /\ RowOf(db.sets, m.set_id).dat_id = m.dat_id
        /\ RowOf(db.roms, m.rom_id).dat_id = m.dat_id
        /\ RowOf(db.roms, m.rom_id).set_id = m.set_id

\* update has rematched the files of an archive under the new dat and has
\* relinked the dirs, beside a dat that is left as it was
C1_Witness ==
    /\ last.op = "update" /\ last.committed
    /\ \E m \in db.matches : m.dat_id = last.dat_id
    /\ \E x \in db.dats : x.id # last.dat_id
    /\ C1_MatchIntegrity

\* C2: every match row of status exact ("match") references a file and a rom
\* of equal size and equal hash.
C2_ExactAgrees ==
    \A m \in db.matches :
        m.status = "match" =>
            /\ RowOf(db.files, m.file_id).size = RowOf(db.roms, m.rom_id).size
            /\ RowOf(db.files, m.file_id).hash = RowOf(db.roms, m.rom_id).hash

FilesOf(d, x) == {f \in d.files : f.dir_id = x.id}

\* the entries of a matcher result, or the match rows of a file, as a set
ItemsOf(result) == {result.items[i] : i \in 1..Len(result.items)}
MatchItemsOf(f) == {[status |-> m.status, set_id |-> m.set_id, rom_id |-> m.rom_id] : m \in MatchesOf(f)}

\* a dir row that stands for a ZIP archive, and the sets named like its stem
IsArchiveDir(x) == is_zip_path(x.path)
StemSets(x) == {g \in db.sets : g.dat_id = x.dat_id /\ g.name = file_stem(x.path)}

C6_ArchiveMembers ==
    \A x \in db.dirs :
        (IsArchiveDir(x) /\ StemSets(x) # {}) =>
            \A f \in FilesOf(db, x) : \A m \in MatchesOf(f) : m.set_id \in Ids(StemSets(x))

C6_LooseFiles ==
    (last.op = "scan" /\ last.ok) =>
        \A f \in db.files \ last.before.files :
            ~IsArchiveDir(RowOf(db.dirs, f.dir_id)) =>
                MatchItemsOf(f) = ItemsOf(match_roms(db, f.dat_id, f.name, f.size, f.hash, {}))

\* C6: every match row of a member of a ZIP archive whose stem is the name of
\* at least one set of the dat references one of those sets, whether scan or
\* update wrote it; and the match rows a scan writes for a loose file are
\* those of the matcher called with no allowed sets.
C6_ZipRestriction == C6_ArchiveMembers /\ C6_LooseFiles

\* The scenario of C7: the dat of archive dir x holds two sets, G1 and G2,
\* each with one rom R.bin, of different hashes; x is G1.zip; its member f is
\* R.bin with the hash of r2, the rom of G2.
C7_Scenario(x, f, r2) ==
    /\ x \in db.dirs /\ IsArchiveDir(x) /\ file_name(x.path) = "G1.zip"
    /\ f \in FilesOf(db, x) /\ f.name = "R.bin"
    /\ {g.name : g \in {y \in db.sets : y.dat_id = x.dat_id}} = {"G1", "G2"}
    /\ Cardinality({y \in db.sets : y.dat_id = x.dat_id}) = 2
    /\ Cardinality({r \in db.roms : r.dat_id = x.dat_id}) = 2
    /\ r2 \in db.roms /\ r2.dat_id = x.dat_id /\ r2.name = "R.bin"
    /\ RowOf(db.sets, r2.set_id).name = "G2"
    /\ \E r1 \in db.roms : /\ r1.dat_id = x.dat_id /\ r1.name = "R.bin"
                           /\ RowOf(db.sets, r1.set_id).name = "G1"
                           /\ r1.hash # r2.hash
    /\ f.hash = r2.hash

SecondScan ==
    /\ last.op = "scan" /\ last.prev.op = "scan" /\ last.prev.ok
    /\ last.prev.dat_id = last.dat_id /\ last.prev.path = last.path

SameOptions == last.prev.exclude = last.exclude /\ last.prev.recursive = last.recursive

DirsAt(d, dat_id, path) ==
    {x \in d.dirs : x.dat_id = dat_id /\ (x.path = path \/ IsBelow(x.path, path))}

\* the file rows below a path as (dir path, name, size, hash), and the match
\* rows as (dir path, file name, status, set, rom)
FileView(d, dat_id, path) ==
    UNION {{<<x.path, f.name, f.size, f.hash>> : f \in FilesOf(d, x)} : x \in DirsAt(d, dat_id, path)}

MatchView(d, dat_id, path) ==
    UNION {UNION {{<<x.path, f.name, m.status, m.set_id, m.rom_id>> :
                      m \in {k \in d.matches : k.file_id = f.id}} : f \in FilesOf(d, x)} :
              x \in DirsAt(d, dat_id, path)}

\* the store with nothing indexed
Unindexed(d) == [d EXCEPT !.dirs = {}, !.files = {}, !.matches = {}]

\* the scan that last records, run on the store with nothing indexed
FreshScan ==
    scan_files(Unindexed(last.before), disk, last.dat_id, last.path, last.exclude,
               last.recursive, FALSE, "asc")

\* C9: a full scan of a path that the index already holds rows for succeeds,
\* and leaves for that path the file rows (dir path, name, size, hash) and
\* the matches that the same scan leaves in an index that held nothing.
C9_FullScanAsFresh ==
    (/\ last.op = "scan" /\ ~last.incremental
     /\ \E x \in get_by_dat_path(last.before, last.dat_id, last.path) :
           FilesOf(last.before, x) # {}) =>
        /\ last.ok
        /\ FileView(db, last.dat_id, last.path) = FileView(FreshScan.db, last.dat_id, last.path)
        /\ MatchView(db, last.dat_id, last.path) = MatchView(FreshScan.db, last.dat_id, last.path)

\* file row f of dir row x is on disk: a file of the directory, or a member
\* of the archive
OnDisk(x, f) ==
    IF IsArchiveDir(x)
    THEN /\ is_file(disk, x.path)
         /\ LET archive == ArchiveOf(disk[x.path].content)
            IN  archive.valid /\ \E i \in 1..Len(archive.members) :
                    archive.members[i].is_file /\ archive.members[i].name = f.name
    ELSE is_file(disk, join(x.path, f.name))

\* dir row x is the row root_id or lies below it by the parent links
RECURSIVE Descends(_, _, _)
Descends(d, x, root_id) ==
    \/ x.id = root_id
    \/ /\ x.parent_id \in Ids(d.dirs) \ {x.id}
       /\ Descends(d, RowOf(d.dirs, x.parent_id), root_id)

\* C10: after a full recursive scan of a path, no file row is left for a
\* (dir, name) indexed before that is not on disk, and no dir row is left,
\* at any depth below the row of the path, for a directory or archive that
\* is not on disk.
C10_VanishedRowsGone ==
    (last.op = "scan" /\ last.ok /\ ~last.incremental /\ last.recursive) =>
        \A top \in get_by_dat_path(db, last.dat_id, last.path) :
            \A x \in {y \in db.dirs : Descends(db, y, top.id)} :
                /\ x.path \in DOMAIN disk /\ disk[x.path].kind # "none"
                /\ \A f \in FilesOf(db, x) :
                      (\E y \in last.before.dirs :
                          /\ y.dat_id = x.dat_id /\ y.path = x.path
                          /\ \E g \in FilesOf(last.before, y) : g.name = f.name)
                      => OnDisk(x, f)

\* the last command was an incremental scan that succeeded
IncrementalScan == last.op = "scan" /\ last.ok /\ last.incremental

\* the match rows of store d that reference file row f
MatchRowsOf(d, f) == {m \in d.matches : m.file_id = f.id}

\* C11: after an incremental scan of a directory, for every file row the
\* index held for that directory whose file is no longer on disk, no file
\* row of that directory and name is left and no match row references it.
C11_VanishedFileGone ==
    IncrementalScan =>
        \A x \in get_by_dat_path(last.before, last.dat_id, last.path) :
            \A f \in FilesOf(last.before, x) :
                ~is_file(disk, join(x.path, f.name)) =>
                    /\ \A g \in db.files : ~(g.dir_id = x.id /\ g.name = f.name)
                    /\ MatchRowsOf(db, f) = {}

\* file row f of the store before the scan is a loose file still on disk
StillOnDisk(f) ==
    LET x == RowOf(last.before.dirs, f.dir_id)
    IN  ~IsArchiveDir(x) /\ is_file(disk, join(x.path, f.name))

\* file row f and its match rows are as they were before the scan
Untouched(f) == f \in db.files /\ MatchRowsOf(db, f) = MatchRowsOf(last.before, f)

\* C12: an incremental scan leaves unchanged every file row, and
\* its match rows, whose loose file is still on disk under the same name in
\* the same directory, whatever the exclusion list and the recursive flag.
C12_KeptWhateverOptions ==
    IncrementalScan => \A f \in last.before.files : StillOnDisk(f) => Untouched(f)

\* the rows of relation rel that carry dat dat_id
OfDat(rel, dat_id) == {r \in rel : r.dat_id = dat_id}

\* C13: after remove of a dat, the dat row is gone and no row of sets, roms,
\* dirs, files or matches carries that dat.
C13_RemoveLeavesNothing ==
    last.op = "remove" =>
        /\ last.dat_id \notin Ids(db.dats)
        /\ \A rel \in {db.sets, db.roms, db.dirs, db.files, db.matches} : OfDat(rel, last.dat_id) = {}

\* the last command was an update with a catalog that import accepts
UpdateRan == last.op = "update" /\ import_dat(last.before, last.doc).ok

\* the dirs of the old dat before the update
OldDirs == OfDat(last.before.dirs, last.old)

\* C14: after update of a dat that owned dirs with files, every dir that
\* belonged to the old dat belongs to the dat just imported, and the old dat
\* row, its sets and its roms are gone.
C14_UpdateMovesDirs ==
    (UpdateRan /\ \E x \in OldDirs : FilesOf(last.before, x) # {}) =>
        /\ \A x \in OldDirs : \E y \in db.dirs :
              y.id = x.id /\ y.path = x.path /\ y.dat_id = NextId(last.before.dats)
        /\ last.old \notin Ids(db.dats)
        /\ OfDat(db.sets, last.old) = {} /\ OfDat(db.roms, last.old) = {}

\* the sets of dat dat_id named like the stem of archive dir x
StemSetsOf(dat_id, x) == {g \in db.sets : g.dat_id = dat_id /\ g.name = file_stem(x.path)}

\* C15: after update no match row carries the old dat, and the match rows of
\* every file of every dir the old dat owned are those the matcher yields
\* for the new dat and the file's name, size and hash: restricted to the
\* sets named like the stem for an archive dir, unrestricted otherwise.
C15_UpdateRematches ==
    UpdateRan =>
        /\ OfDat(db.matches, last.old) = {}
        /\ \A x \in OldDirs : \A f \in FilesOf(db, x) :
              MatchItemsOf(f) =
                  ItemsOf(match_roms(db, NextId(last.before.dats), f.name, f.size, f.hash,
                                     IF IsArchiveDir(x)
                                     THEN Ids(StemSetsOf(NextId(last.before.dats), x))
                                     ELSE {}))

\* C16: a scan, import, update or remove that fails leaves the store as it
\* was before the command; so an update never leaves the dat it imported
\* beside the old dat.
C16_AllOrNothing ==
    /\ (last.op \in {"scan", "import", "update", "remove"} /\ ~last.ok) => db = last.before
    /\ last.op = "update" =>
          ~(last.old \in Ids(db.dats) /\ NextId(last.before.dats) \in Ids(db.dats))

\* scan_directory as the last scan ran it, inside its transaction
LastWalk(order) ==
    scan_directory(last.before, [fs |-> disk, dat_id |-> last.dat_id, exclude |-> last.exclude,
                                 recursive |-> last.recursive, order |-> order],
                   last.path, last.incremental, 0)

\* C21: a scan that returns an error leaves the dir rows, the file rows and
\* the match rows exactly as they were before the scan
C21_FailedScanChangesNothing ==
    (last.op = "scan" /\ ~last.ok) =>
        /\ db.dirs = last.before.dirs
        /\ db.files = last.before.files
        /\ db.matches = last.before.matches

\* a scan failed after it had written dir rows
C21_Witness ==
    /\ last.op = "scan" /\ ~last.ok
    /\ \E order \in Orders : LastWalk(order).db.dirs # last.before.dirs

\* reading the archive with contents c fails: it is no archive, or two of
\* the members it would index share a name
ArchiveBreaks(c, exclude) ==
    LET archive == ArchiveOf(c)
        indexed == {i \in 1..Len(archive.members) :
                        /\ archive.members[i].is_file
                        /\ ~is_excluded(archive.members[i].name, exclude)}
    IN  \/ ~archive.valid
        \/ \E i, j \in indexed : i # j /\ archive.members[i].name = archive.members[j].name

\* the archives the last scan met in the directory it was given, not indexed
\* before, whose processing failed
BrokenArchives ==
    {p \in ZipPaths : /\ Facts(p).parent = last.path
                      /\ is_file(disk, p)
                      /\ ~is_excluded(p, last.exclude)
                      /\ get_by_dat_path(last.before, last.dat_id, p) = {}
                      /\ ArchiveBreaks(disk[p].content, last.exclude)}

\* the last scan, had path p not been on the disk
ScanWithout(p, order) ==
    scan_files(last.before, [disk EXCEPT ![p] = NoNode], last.dat_id, last.path, last.exclude,
               last.recursive, last.incremental, order)

\* C22: when the processing of one archive fails, no row written for that
\* archive persists, and the scan goes on and ends as it would have ended
\* without the archive: same outcome, same rows for the remaining entries
C22_FailedArchiveLeavesNothing ==
    last.op = "scan" =>
        \A p \in BrokenArchives :
            /\ last.ok => get_by_dat_path(db, last.dat_id, p) = {}
            /\ \E order \in Orders :
                   /\ last.ok = ScanWithout(p, order).ok
                   /\ db = ScanWithout(p, order).db

\* a scan met a broken archive, indexed another entry and committed
C22_Witness ==
    /\ last.op = "scan" /\ last.ok
    /\ BrokenArchives # {}
    /\ db.files # last.before.files

\* the file rows of the scanned directory whose file is gone from the disk
\* and that a match row still references: the deletion pass of an
\* incremental scan issues a delete for each, and the store refuses it
RefusedDeletes ==
    {f \in last.before.files :
        /\ \E x \in get_by_dat_path(last.before, last.dat_id, last.path) : f.dir_id = x.id
        /\ ~is_file(disk, join(last.path, f.name))
        /\ MatchRowsOf(last.before, f) # {}}

\* C23: when a store operation of a scan fails, a delete of the deletion
\* pass included, the scan does not commit and returns the error
C23_StoreFailureAborts ==
    (last.op = "scan" /\ last.incremental /\ RefusedDeletes # {}) =>
        ~last.ok /\ db = last.before

\* the dir rows the index held, before the last scan, for directories below
\* the scanned one that are still on disk
IndexedChildren ==
    {x \in last.before.dirs : /\ x.dat_id = last.dat_id
                              /\ IsBelow(x.path, last.path)
                              /\ is_dir(disk, x.path)}

\* C24 as stated: an incremental scan, recursive or not, deletes no dir row,
\* file row or match row of an indexed child directory that is still on disk
C24_ChildRowsKept ==
    IncrementalScan =>
        \A x \in IndexedChildren :
            /\ x \in db.dirs
            /\ \A f \in FilesOf(last.before, x) : Untouched(f)

\* C24, amended: an incremental scan never deletes the dir row of such a
\* directory, and one that is not recursive leaves all its file rows and
\* match rows as they were
C24_ChildDirKept ==
    IncrementalScan =>
        \A x \in IndexedChildren :
            /\ x \in db.dirs
            /\ ~last.recursive => \A f \in FilesOf(last.before, x) : Untouched(f)

\* an incremental scan, not recursive, of a directory whose indexed child
\* directory, still on disk, was left on the pending set
C24_Witness ==
    /\ IncrementalScan /\ ~last.recursive
    /\ \E x \in IndexedChildren :
           /\ x.parent_id \in Ids(get_by_dat_path(last.before, last.dat_id, last.path))
           /\ FilesOf(last.before, x) # {}

\* name carries an extension that equals an entry of the list but for ASCII case
Listed(name, exclude) ==
    /\ Facts(name).extension.some
    /\ \E e \in exclude : eq_ignore_ascii_case(Facts(name).extension.val, e)

\* C25: a scan inserts no file row, for a loose file or an archive member,
\* whose extension equals an entry of the exclusion list but for ASCII case
\* (after a full scan the scanned directory holds no such row at all), and
\* does not open an archive whose extension zip is on that list: it writes
\* neither a dir row nor a file row for it
C25_ExcludedNeverIndexed ==
    last.op = "scan" =>
        /\ \A f \in db.files \ last.before.files : ~Listed(f.name, last.exclude)
        /\ (last.ok /\ ~last.incremental) =>
               \A x \in get_by_dat_path(db, last.dat_id, last.path) :
                   \A f \in FilesOf(db, x) : ~Listed(f.name, last.exclude)
        /\ \A x \in db.dirs :
               (IsArchiveDir(x) /\ Listed(x.path, last.exclude)) =>
                   /\ x \in last.before.dirs
                   /\ FilesOf(db, x) \subseteq FilesOf(last.before, x)

\* a scan with zip excluded met an archive, wrote nothing for it, and
\* indexed another file
C25_Witness ==
    /\ last.op = "scan" /\ last.ok
    /\ \E p \in ZipPaths : /\ Facts(p).parent = last.path
                           /\ is_file(disk, p)
                           /\ Listed(p, last.exclude)
                           /\ get_by_dat_path(db, last.dat_id, p) = {}
    /\ db.files # last.before.files

\* the dir rows of store d for the path and the dat of the last scan
ScannedDirRows(d) == {x \in d.dirs : x.dat_id = last.dat_id /\ x.path = last.path}

\* the last scan was given a path the index already held for the dat
RescanOfIndexed == last.op = "scan" /\ ScannedDirRows(last.before) # {}

\* C26: no two dir rows share path and dat; a scan of a path already indexed
\* for the dat, incremental or full, works on the existing dir row: the row
\* keeps its id, no other row is inserted for the path, and an incremental
\* scan of the path alone does not fail
C26_OneDirRowPerPath ==
    /\ \A x, y \in db.dirs : (x.path = y.path /\ x.dat_id = y.dat_id) => x = y
    /\ RescanOfIndexed =>
           /\ ScannedDirRows(db) = ScannedDirRows(last.before)
           /\ (last.incremental /\ ~last.recursive) => last.ok

\* a full scan of an indexed path that committed and wrote file rows
C26_Witness ==
    /\ RescanOfIndexed /\ last.ok /\ ~last.incremental
    /\ db.files # last.before.files

\* C27: no two file rows share dir and name; what a file matches is told by
\* its match rows, so a file that matches several roms has one file row and
\* a match row for each rom
C27_OneFileRowPerName ==
    \A f, g \in db.files : (f.dir_id = g.dir_id /\ f.name = g.name) => f = g

\* a file with match rows for two roms and one file row
C27_Witness ==
    \E f \in db.files :
        /\ Cardinality({m.rom_id : m \in MatchRowsOf(db, f)}) >= 2
        /\ Cardinality({g \in db.files : g.dir_id = f.dir_id /\ g.name = f.name}) = 1

\* C28: in every state, after an update too, the dat a row carries is the
\* dat one derives: a rom's dat is the dat of its set, a file's dat is the
\* dat of its dir, a match's dat is the dat of its file
C28_DatDerivable ==
    /\ \A r \in db.roms : r.dat_id = RowOf(db.sets, r.set_id).dat_id
    /\ \A f \in db.files : f.dat_id = RowOf(db.dirs, f.dir_id).dat_id
    /\ \A m \in db.matches : m.dat_id = RowOf(db.files, m.file_id).dat_id

\* the names of the members of the archive at path p that a scan indexes
IndexedMembers(p, exclude) ==
    LET archive == ArchiveOf(disk[p].content)
    IN  {archive.members[i].name : i \in {j \in 1..Len(archive.members) :
             archive.members[j].is_file /\ ~Listed(archive.members[j].name, exclude)}}

\* C29: the dir row of an archive has the path of the archive, and its
\* parent is the dir row, of the same dat, of the directory that holds the
\* archive; the file rows a scan writes for the members of an archive are
\* rows of that dir row
C29_ArchiveDirUnderParent ==
    /\ \A x \in db.dirs :
           IsArchiveDir(x) =>
               \E y \in db.dirs : /\ y.id = x.parent_id
                                  /\ y.dat_id = x.dat_id
                                  /\ y.path = Facts(x.path).parent
    /\ (last.op = "scan" /\ last.ok) =>
           \A x \in db.dirs \ last.before.dirs :
               IsArchiveDir(x) =>
                   /\ x.dat_id = last.dat_id /\ is_file(disk, x.path)
                   /\ {f.name : f \in FilesOf(db, x)} = IndexedMembers(x.path, last.exclude)
                   /\ FilesOf(db, x) \cap last.before.files = {}

\* a scan wrote the dir row of an archive and the file row of a member
C29_Witness ==
    /\ last.op = "scan" /\ last.ok
    /\ \E x \in db.dirs \ last.before.dirs : IsArchiveDir(x) /\ FilesOf(db, x) # {}

\* file row f, before the last rename, was a file rename may act on: in a
\* dir row of the selected dat that is no archive, with exactly one match
\* row, of status hash
HashOnlyFile(f) ==
    LET x == RowOf(last.before.dirs, f.dir_id)
    IN  /\ x.dat_id = last.dat_id
        /\ ~IsArchiveDir(x)
        /\ Cardinality(MatchRowsOf(last.before, f)) = 1
        /\ \A m \in MatchRowsOf(last.before, f) : m.status = "hash"

\* the path of the file of row f before the last rename, and the path
\* rename gives it: the name of the rom it matches, in the same directory
PathOf(f) == join(RowOf(last.before.dirs, f.dir_id).path, f.name)
RenamedPathOf(f) ==
    LET m == CHOOSE n \in MatchRowsOf(last.before, f) : TRUE
    IN  join(RowOf(last.before.dirs, f.dir_id).path, RowOf(last.before.roms, m.rom_id).name)

\* rename changes rows only of the matches of such files, and only their status
C30_RenameRows ==
    last.op = "rename" =>
        /\ [db EXCEPT !.matches = {}] = [last.before EXCEPT !.matches = {}]
        /\ \A f \in last.before.files :
               \/ MatchRowsOf(db, f) = MatchRowsOf(last.before, f)
               \/ /\ HashOnlyFile(f)
                  /\ MatchRowsOf(db, f)
                         = {[m EXCEPT !.status = "match"] : m \in MatchRowsOf(last.before, f)}
        /\ {m.file_id : m \in db.matches} \subseteq Ids(last.before.files)

\* C30: rename changes a match row and a name on disk only for a file in a
\* dir of the dat that is no archive, with exactly one match, of status
\* hash; every other indexed file (no row for its path is such a row) is on
\* disk as it was, and its rows are unchanged
C30_RenameFrame ==
    /\ C30_RenameRows
    /\ last.op = "rename" =>
           /\ \A f \in last.before.files :
                  (/\ PathOf(f) \in LoosePaths
                   /\ \A g \in last.before.files : PathOf(g) = PathOf(f) => ~HashOnlyFile(g)) =>
                      disk[PathOf(f)] = last.disk_before[PathOf(f)]
           /\ \A p \in ZipPaths : disk[p] = last.disk_before[p]

\* the loose files the last rename attempted
Attempted == {f \in last.before.files : HashOnlyFile(f) /\ PathOf(f) \in LoosePaths}

\* C31: for each file rename attempts, after rename returns either the match
\* is exact and the file is on disk under the rom's name, or the match is
\* still hash-only and the file is on disk as it was
C31_RenamedOrUntouched ==
    last.op = "rename" =>
        \A f \in Attempted :
            \/ /\ \A m \in MatchRowsOf(db, f) : m.status = "match"
               /\ is_file(disk, RenamedPathOf(f))
               /\ disk[RenamedPathOf(f)].content = last.disk_before[PathOf(f)].content
            \/ /\ MatchRowsOf(db, f) = MatchRowsOf(last.before, f)
               /\ disk[PathOf(f)] = last.disk_before[PathOf(f)]

\* C35: in every state every match row references a file row, a set row and
\* a rom row that exist: no operation deletes a file, a set or a rom that a
\* match row references
C35_MatchesReferToRows ==
    \A m \in db.matches :
        /\ m.file_id \in Ids(db.files)
        /\ m.set_id \in Ids(db.sets)
        /\ m.rom_id \in Ids(db.roms)

\* an operation tried to delete rows that match rows reference and has
\* left them: a scan with a refused delete, or a remove or update that failed
C35_Witness ==
    /\ db.matches # {}
    /\ \/ last.op = "scan" /\ last.ok /\ last.incremental /\ RefusedDeletes # {}
       \/ last.op \in {"remove", "update"} /\ ~last.ok

\* C36: in every state the match rows of one file carry one status, after
\* rename too
C36_OneStatusPerFile ==
    \A m, n \in db.matches : m.file_id = n.file_id => m.status = n.status

\* after a rename that made a match exact, a file with several match rows
C36_Witness ==
    /\ last.op = "rename"
    /\ db.matches # last.before.matches
    /\ \E f \in db.files : Cardinality(MatchRowsOf(db, f)) >= 2

\* the dir, file and match rows of a store that another dat owns
OwnedByOthers(d, dat_id) ==
    [dirs    |-> {r \in d.dirs : r.dat_id # dat_id},
     files   |-> {r \in d.files : r.dat_id # dat_id},
     matches |-> {r \in d.matches : r.dat_id # dat_id}]

\* C37: a scan for one dat changes no row of dats, sets, roms and no dir, file
\* or match row that another dat owns
C37_ScanKeepsOtherDats ==
    last.op = "scan" =>
        /\ db.dats = last.before.dats
        /\ db.sets = last.before.sets
        /\ db.roms = last.before.roms
        /\ OwnedByOthers(db, last.dat_id) = OwnedByOthers(last.before, last.dat_id)

\* the paths of a disk that hold a file
FilesOnDisk(fs) == {p \in DOMAIN fs : is_file(fs, p)}

\* C38: rename destroys no file on disk: no file's content is overwritten, and
\* the disk holds as many files after the rename as before it
C38_RenameKeepsFiles ==
    last.op = "rename" =>
        /\ Cardinality(FilesOnDisk(disk)) = Cardinality(FilesOnDisk(last.disk_before))
        /\ \A p \in FilesOnDisk(last.disk_before) :
               \E q \in FilesOnDisk(disk) : disk[q].content = last.disk_before[p].content

\* the match rows that the last rename made exact
Promoted == {m \in db.matches : m.status = "match" /\ m \notin last.before.matches}

\* C39: after a rename, the file row of every match the rename made exact
\* carries the name of the rom, the name the file now has on disk
C39_RowNamedAsRom ==
    last.op = "rename" =>
        \A m \in Promoted :
            \A f \in db.files : \A r \in db.roms :
                (f.id = m.file_id /\ r.id = m.rom_id) => f.name = r.name

\* the dir rows of the archives, indexed before and still on disk, that the
\* last full scan met in the directory it was given and failed to rescan:
\* the archive no longer reads as one, or the store refuses to wipe its
\* member rows because a match row references one of them
FailedRescans ==
    {x \in last.before.dirs :
        /\ x.dat_id = last.dat_id
        /\ x.path \in ZipPaths
        /\ Facts(x.path).parent = last.path
        /\ is_file(disk, x.path)
        /\ ~Listed(x.path, last.exclude)
        /\ \/ ArchiveBreaks(disk[x.path].content, last.exclude)
           \/ \E f \in last.before.files : f.dir_id = x.id /\ MatchRowsOf(last.before, f) # {}}

\* C40: after a full scan that commits, an archive indexed before and still
\* on disk whose rescan failed keeps its dir row, its member file rows and
\* their match rows
C40_FailedRescanKeepsRows ==
    (last.op = "scan" /\ last.ok /\ ~last.incremental) =>
        \A x \in FailedRescans :
            /\ x \in db.dirs
            /\ \A f \in last.before.files :
                   f.dir_id = x.id => f \in db.files /\ MatchRowsOf(last.before, f) \subseteq db.matches

(***************************************************************************)
(* The matcher on its own: SpecMatch starts from a store holding two dats  *)
(* and up to MaxRoms roms, and calls match_roms once.                      *)
(***************************************************************************)
ProbeNames == {"R.bin", "O.bin"}
ProbeSizes == {3, 4}
ProbeHashes == {HashA, HashB}

\* dat 1 with sets 1 and 2, dat 2 with set 3
ProbeBase ==
    [EmptyDb EXCEPT
        !.dats = {[id |-> i, name |-> "X", description |-> "d", version |-> "1",
                   author |-> "a", hash_type |-> "sha1"] : i \in {1, 2}},
        !.sets = {[id |-> 1, dat_id |-> 1, name |-> "G1"], [id |-> 2, dat_id |-> 1, name |-> "G2"],
                  [id |-> 3, dat_id |-> 2, name |-> "G1"]}]

\* the roms a probe store is filled from: each lies in a set of its dat
ProbeRoms ==
    {[dat_id |-> (CHOOSE x \in ProbeBase.sets : x.id = s).dat_id, set_id |-> s,
      name |-> n, size |-> z, hash |-> h] :
        s \in Ids(ProbeBase.sets), n \in ProbeNames, z \in ProbeSizes, h \in ProbeHashes}

RECURSIVE ProbeWith(_, _, _)
ProbeWith(d, roms, i) ==
    IF i > Len(roms) THEN d ELSE ProbeWith(insert_rom(d, roms[i]).db, roms, i + 1)

ProbeDbs ==
    {ProbeWith(ProbeBase, roms, 1) : roms \in UNION {[1..n -> ProbeRoms] : n \in 0..MaxRoms}}

InitMatch ==
    /\ db \in ProbeDbs
    /\ disk = DiskWith([p \in {Root} |-> DirNode])
    /\ last = [op |-> "init"]
    /\ steps = 0
    /\ changes = 0

\* one call of match_roms; last keeps the arguments and the result
MatchCall(dat_id, filename, file_size, hash, matched_sets) ==
    /\ last.op = "init"
    /\ last' = [op |-> "match", dat_id |-> dat_id, filename |-> filename,
                file_size |-> file_size, hash |-> hash, matched_sets |-> matched_sets,
                result |-> match_roms(db, dat_id, filename, file_size, hash, matched_sets)]
    /\ steps' = steps + 1
    /\ UNCHANGED <<db, disk, changes>>

\* matched_sets is empty or what match_sets can give: sets of the dat
NextMatch ==
    \E dat_id \in Ids(ProbeBase.dats), filename \in ProbeNames, file_size \in ProbeSizes,
       hash \in ProbeHashes :
        \E matched_sets \in SUBSET {x.id : x \in {y \in ProbeBase.sets : y.dat_id = dat_id}} :
            MatchCall(dat_id, filename, file_size, hash, matched_sets)

SpecMatch == InitMatch /\ [][NextMatch]_vars

(***************************************************************************)
(* Properties of the matcher, stated on the call that last keeps.          *)
(***************************************************************************)
Called == last.op = "match"

\* the roms of the dat that pass the sets filter of the call
Allowed == {r \in db.roms : r.dat_id = last.dat_id
                            /\ (last.matched_sets = {} \/ r.set_id \in last.matched_sets)}
ExactRoms == {r \in Allowed : r.name = last.filename /\ r.size = last.file_size
                              /\ r.hash = last.hash}
HashRoms == {r \in Allowed : r.hash = last.hash}
NameRoms == {r \in Allowed : r.name = last.filename}

\* the result holds one entry of the given status for each rom of S, and no other
ResultIs(status, S) ==
    LET items == last.result.items
    IN  /\ last.result.some
        /\ Len(items) = Cardinality(S)
        /\ \A r \in S : \E i \in 1..Len(items) :
              items[i] = [status |-> status, set_id |-> r.set_id, rom_id |-> r.id]

\* C3: when some rom of the dat has the name, size and hash of the file and
\* passes the sets filter, match_roms returns one entry of status exact
\* ("match") for each such rom and nothing else.
C3_ExactResult == (Called /\ ExactRoms # {}) => ResultIs("match", ExactRoms)

\* a call where two roms have the name, size and hash of the file, and the
\* sets filter keeps one of them
C3_Witness ==
    /\ Called /\ last.matched_sets # {}
    /\ Cardinality(ExactRoms) = 1
    /\ \E r \in db.roms \ Allowed : r.dat_id = last.dat_id /\ r.name = last.filename
                                     /\ r.size = last.file_size /\ r.hash = last.hash
    /\ ResultIs("match", ExactRoms)

\* C4: with no exact rom, when some rom of the dat has the hash of the file
\* and passes the sets filter, match_roms returns one entry of status "hash"
\* for each such rom and nothing else, whatever the names and sizes, and
\* whether or not a rom is named like the file.
C4_HashResult == (Called /\ ExactRoms = {} /\ HashRoms # {}) => ResultIs("hash", HashRoms)

\* a call with a name candidate and a hash candidate of another name and size
C4_Witness ==
    /\ Called /\ ExactRoms = {} /\ NameRoms # {}
    /\ \E r \in HashRoms : r.name # last.filename /\ r.size # last.file_size
    /\ ResultIs("hash", HashRoms)

\* C5: with no exact rom and no rom with the hash of the file that passes the
\* sets filter, match_roms returns one entry of status "name" for each rom
\* named like the file that passes the filter, and no match only when there
\* is no such rom.
C5_NameResult ==
    (Called /\ ExactRoms = {} /\ HashRoms = {}) =>
        IF NameRoms # {} THEN ResultIs("name", NameRoms) ELSE ~last.result.some

(***************************************************************************)
(* Import on its own: SpecImport starts from a store that holds no dat or  *)
(* one dat, and runs import once.                                          *)
(***************************************************************************)
\* a file that cannot be read or is not well-formed XML
Unparsable == [Document(FALSE, FullHeader, <<>>) EXCEPT !.parses = FALSE]

\* the header with all four texts, and with one of them absent
ImportHeaders ==
    {FullHeader,
     [FullHeader EXCEPT !.name = None], [FullHeader EXCEPT !.description = None],
     [FullHeader EXCEPT !.version = None], [FullHeader EXCEPT !.author = None]}

\* rom elements: two complete ones (one with its hash in uppercase), one for
\* each absent attribute, one whose size is not a number
ImportRomElems ==
    {Rom(Some("R.bin"), Some("3"), Some(HashA)), Rom(Some("O.bin"), Some("4"), Some("00FF")),
     Rom(None, Some("3"), Some(HashA)), Rom(Some("R.bin"), None, Some(HashA)),
     Rom(Some("R.bin"), Some("3"), None), Rom(Some("R.bin"), Some("3x"), Some(HashA))}

ImportGameElems ==
    {Game(name, roms) : name \in {Some("G1"), None},
                        roms \in UNION {[1..n -> ImportRomElems] : n \in 0..MaxGameRoms}}

InitImport ==
    /\ db \in {EmptyDb, import_dat(EmptyDb, CatTwo).db}
    /\ disk = DiskWith([p \in {Root} |-> DirNode])
    /\ last = [op |-> "init"]
    /\ steps = MaxSteps - 1
    /\ changes = 0

\* one import, on the store of InitImport: of a file that does not parse, or
\* of a catalog with or without header and with up to MaxGames games
NextImport ==
    /\ last.op = "init"
    /\ \/ Import(Unparsable)
       \/ \E has_header \in BOOLEAN, header \in ImportHeaders, n \in 0..MaxGames :
             \E games \in [1..n -> ImportGameElems] :
                 Import(Document(has_header, header, games))

SpecImport == InitImport /\ [][NextImport]_vars

(***************************************************************************)
(* Properties of import, stated on the import that last keeps.             *)
(***************************************************************************)
Imported == last.op = "import"

\* the rom elements of a catalog, game by game
RomElemsOf(doc) ==
    UNION {{doc.games[i].roms[j] : j \in 1..Len(doc.games[i].roms)} : i \in 1..Len(doc.games)}

\* the header element is there with its four texts
HeaderComplete(doc) ==
    /\ doc.has_header
    /\ doc.header.name.some /\ doc.header.description.some
    /\ doc.header.version.some /\ doc.header.author.some

\* a string of decimal digits
IsDecimal(t) == Len(t) > 0 /\ \A i \in 1..Len(t) : IsDigit(CharAt(t, i))

\* one of the defects of a catalog that C17 lists
Defective(doc) ==
    \/ ~doc.parses
    \/ ~HeaderComplete(doc)
    \/ \E i \in 1..Len(doc.games) : ~doc.games[i].name.some
    \/ \E e \in RomElemsOf(doc) :
          ~e.name.some \/ ~e.size.some \/ ~e.sha1.some \/ ~IsDecimal(e.size.val)

\* C17: an import that fails leaves every relation as it was before the
\* import, and import fails on a file that is unreadable or malformed, lacks
\* the header, or holds a game without name, a rom without name, size or
\* sha1, or a size that is not a decimal number.
C17_FailedImportChangesNothing ==
    /\ (Imported /\ ~last.ok) => db = last.before
    /\ (Imported /\ Defective(last.doc)) => ~last.ok

\* an import failed after it had inserted a dat, a set and a rom, in a store
\* that held a dat already
C17_Witness ==
    /\ Imported /\ ~last.ok /\ last.before # EmptyDb
    /\ parse_dat_file(last.before, last.doc).db.roms # last.before.roms
    /\ db = last.before

\* the rows an import added
NewRows(rel, old) == rel \ old

\* C18: a successful import adds one dat row, with the texts of the header;
\* one set row for each game, of the new dat and with the name of the game;
\* one rom row for each rom element of each game, of the new dat, of the set
\* of its game, with the name and size of the element; it changes no row
\* that was there before; and a catalog with a complete header and no game
\* is imported, to one dat, no set and no rom.
C18_ImportAddsRows ==
    /\ (Imported /\ last.ok) =>
          LET doc == last.doc
              sets == SortById(NewRows(db.sets, last.before.sets))
          IN  /\ NewRows(db.dats, last.before.dats) =
                    {[id |-> last.dat_id, name |-> doc.header.name.val,
                      description |-> doc.header.description.val,
                      version |-> doc.header.version.val,
                      author |-> doc.header.author.val, hash_type |-> "sha1"]}
              /\ Len(sets) = Len(doc.games)
              /\ \A i \in 1..Len(sets) :
                    /\ sets[i].dat_id = last.dat_id /\ sets[i].name = doc.games[i].name.val
                    /\ LET elems == doc.games[i].roms
                           roms == SortById({r \in NewRows(db.roms, last.before.roms) :
                                               r.set_id = sets[i].id})
                       IN  /\ Len(roms) = Len(elems)
                           /\ \A j \in 1..Len(roms) :
                                 /\ roms[j].dat_id = last.dat_id
                                 /\ roms[j].name = elems[j].name.val
                                 /\ roms[j].size = DecimalValue(elems[j].size.val)
              /\ \A r \in NewRows(db.roms, last.before.roms) :
                    \E i \in 1..Len(sets) : r.set_id = sets[i].id
              /\ last.before.dats \subseteq db.dats /\ last.before.sets \subseteq db.sets
              /\ last.before.roms \subseteq db.roms /\ db.dirs = last.before.dirs
              /\ db.files = last.before.files /\ db.matches = last.before.matches
    /\ (Imported /\ last.doc.parses /\ HeaderComplete(last.doc) /\ last.doc.games = <<>>) =>
          /\ last.ok
          /\ Cardinality(NewRows(db.dats, last.before.dats)) = 1
          /\ db.sets = last.before.sets /\ db.roms = last.before.roms

\* an import added two sets, the first with two roms, to a store that held
\* sets and roms of another dat
C18_Witness ==
    /\ Imported /\ last.ok /\ last.before.roms # {}
    /\ Len(last.doc.games) = 2 /\ Len(last.doc.games[1].roms) = 2
    /\ Cardinality(NewRows(db.roms, last.before.roms)) >= 2
    /\ Cardinality(NewRows(db.sets, last.before.sets)) = 2

\* a string with its ASCII uppercase letters in lowercase
RECURSIVE ToAsciiLower(_)
ToAsciiLower(t) ==
    IF t = "" THEN ""
    ELSE ToAsciiLowerChar(CharAt(t, 1)) \o ToAsciiLower(SubSeq(t, 2, Len(t)))

\* C19: the hashes of the rom rows an import adds are the sha1 attributes of
\* the rom elements of the catalog, in lowercase.
C19_HashStoredLowercase ==
    (Imported /\ last.ok) =>
        {r.hash : r \in NewRows(db.roms, last.before.roms)} =
            {ToAsciiLower(e.sha1.val) : e \in RomElemsOf(last.doc)}

\* C20: import of a catalog without header element, or whose header lacks
\* the text of name, description, version or author, fails and inserts no
\* dat.
C20_HeaderRequired ==
    (Imported /\ last.doc.parses /\ ~HeaderComplete(last.doc)) =>
        ~last.ok /\ db.dats = last.before.dats

\* an import failed on a header that lacks only the author, in a catalog
\* whose games and roms are complete
C20_Witness ==
    /\ Imported /\ ~last.ok /\ last.doc.parses /\ last.doc.has_header
    /\ last.doc.header = [FullHeader EXCEPT !.author = None]
    /\ last.doc.games # <<>> /\ RomElemsOf(last.doc) # {}
    /\ \A i \in 1..Len(last.doc.games) : last.doc.games[i].name.some
    /\ \A e \in RomElemsOf(last.doc) : e.name.some /\ e.size.some /\ e.sha1.some /\ IsDecimal(e.size.val)
    /\ db.dats = last.before.dats

(***************************************************************************)
(* The name queries on their own: SpecFind starts from a store whose sets, *)
(* roms and files carry up to MaxFindRows names, and calls find_by_name    *)
(* once.                                                                   *)
(***************************************************************************)
MaxFindRows == 3

\* the LIKE operator of SQLite as the store is opened (no case_sensitive_like
\* pragma, no ESCAPE): % stands for any run of characters, _ for any one
\* character, and any other character for itself in either ASCII case
RECURSIVE Like(_, _)
Like(pattern, s) ==
    IF pattern = "" THEN s = ""
    ELSE LET c == CharAt(pattern, 1)
             rest == SubSeq(pattern, 2, Len(pattern))
         IN  IF c = "%"
             THEN Like(rest, s) \/ (s # "" /\ Like(pattern, SubSeq(s, 2, Len(s))))
             ELSE /\ s # ""
                  /\ c = "_" \/ ToAsciiLowerChar(c) = ToAsciiLowerChar(CharAt(s, 1))
                  /\ Like(rest, SubSeq(s, 2, Len(s)))

\* the rows of a table that lie in a scope: a dat for sets and roms, a dir
\* for files
RowsInScope(d, table, scope) ==
    CASE table = "sets" -> {r \in d.sets : r.dat_id = scope}
      [] table = "roms" -> {r \in d.roms : r.dat_id = scope}
      [] table = "files" -> {r \in d.files : r.dir_id = scope}

\* FindableByName::find_by_name on sets and roms, FileRecord::find_by_name:
\* the rows found, in the order of the query
find_by_name(d, table, scope, name, exact) ==
    IF exact
    THEN SortByName({r \in RowsInScope(d, table, scope) : r.name = name})
    ELSE SortByName({r \in RowsInScope(d, table, scope) : Like("%" \o name \o "%", r.name)})

FindNames == <<"R.bin", "r.bin", "Rxbin", "O.bin">>
FindQueries == {"R.bin", "r.b", "R_bin", "bin", "O", "%", ""}
FindTables == {"sets", "roms", "files"}

\* a store with two dats, a dir for each, and a set, a rom and a file of
\* each name of names under dat 1 and dir 1; dat 2 and dir 2 hold one row
\* of each table, named R.bin
FindDb(names) ==
    LET ids == {i \in 1..Len(FindNames) : FindNames[i] \in names}
        other == Len(FindNames) + 1
    IN  [dats |-> {[id |-> i, name |-> "X", description |-> "d", version |-> "1",
                    author |-> "a", hash_type |-> "sha1"] : i \in {1, 2}},
         sets |-> {[id |-> i, dat_id |-> 1, name |-> FindNames[i]] : i \in ids}
                  \cup {[id |-> other, dat_id |-> 2, name |-> "R.bin"]},
         roms |-> {[id |-> i, dat_id |-> 1, set_id |-> i, name |-> FindNames[i],
                    size |-> 3, hash |-> HashA] : i \in ids}
                  \cup {[id |-> other, dat_id |-> 2, set_id |-> other, name |-> "R.bin",
                         size |-> 3, hash |-> HashA]},
         dirs |-> {[id |-> i, dat_id |-> i, path |-> Root, parent_id |-> 0] : i \in {1, 2}},
         files |-> {[id |-> i, dat_id |-> 1, dir_id |-> 1, name |-> FindNames[i],
                     size |-> 3, hash |-> HashA] : i \in ids}
                   \cup {[id |-> other, dat_id |-> 2, dir_id |-> 2, name |-> "R.bin",
                          size |-> 3, hash |-> HashA]},
         matches |-> {}]

FindDbs ==
    {FindDb(names) : names \in {S \in SUBSET {FindNames[i] : i \in 1..Len(FindNames)} :
                                    Cardinality(S) <= MaxFindRows}}

InitFind ==
    /\ db \in FindDbs
    /\ disk = DiskWith([p \in {Root} |-> DirNode])
    /\ last = [op |-> "init"]
    /\ steps = 0
    /\ changes = 0

\* one call of find_by_name; last keeps the arguments and the result
FindCall(table, scope, name, exact) ==
    /\ last.op = "init"
    /\ last' = [op |-> "find", table |-> table, scope |-> scope, name |-> name,
                exact |-> exact, result |-> find_by_name(db, table, scope, name, exact)]
    /\ UNCHANGED <<db, disk, steps, changes>>

NextFind ==
    \E table \in FindTables, scope \in {1, 2}, name \in FindQueries, exact \in BOOLEAN :
        FindCall(table, scope, name, exact)

SpecFind == InitFind /\ [][NextFind]_vars

\* q occurs in s as it is written
Contains(s, q) == \E i \in 0..(Len(s) - Len(q)) : SubSeq(s, i + 1, i + Len(q)) = q

\* C32: find_by_name, not exact, returns the rows in scope whose name holds
\* the query as a substring, case-sensitively, by name ascending; exact, it
\* returns the rows in scope whose name is the query
C32_FindByName ==
    last.op = "find" =>
        last.result =
            SortByName({r \in RowsInScope(db, last.table, last.scope) :
                            IF last.exact THEN r.name = last.name
                            ELSE Contains(r.name, last.name)})

(***************************************************************************)
(* Opening a store.  SpecMigrate starts from a legacy store: the tables    *)
(* dats, sets, roms and dirs as today, no row in schema_version, and a     *)
(* files table with one row per file and matched rom (status, set_id,      *)
(* rom_id; status none and no set or rom, written 0, for an unmatched      *)
(* file).  It holds up to MaxLegacyFiles file rows and is opened twice.    *)
(***************************************************************************)
MaxLegacyFiles == 3
MaxOpens == 2

\* a rewrite of the match rows that keeps the id of each legacy file row
id_map_unchanged(d, f) == f.id

\* the temporary table id_map: the lowest id among the legacy file rows of
\* the dir and the name of row f
id_map(d, f) == MinOf({g.id : g \in {h \in d.files : h.dir_id = f.dir_id /\ h.name = f.name}})

\* INSERT INTO matches .. SELECT .. FROM files f JOIN sets s JOIN id_map i
\* WHERE f.status != 'none', the rows taken in rowid order from row i on
RECURSIVE MigrateMatches(_, _, _, _)
MigrateMatches(d, rows, i, matches) ==
    IF i > Len(rows) THEN [ok |-> TRUE, matches |-> matches]
    ELSE LET f == rows[i]
             joined == {s \in d.sets : s.id = f.set_id}
         IN  IF f.status = "none" \/ joined = {}
             THEN MigrateMatches(d, rows, i + 1, matches)
             ELSE IF f.rom_id = 0 THEN [ok |-> FALSE, matches |-> matches]   \* rom_id NOT NULL
             ELSE MigrateMatches(d, rows, i + 1, matches \cup
                     {[id |-> NextId(matches), dat_id |-> (CHOOSE s \in joined : TRUE).dat_id,
                       file_id |-> id_map(d, f), status |-> f.status,
                       set_id |-> f.set_id, rom_id |-> f.rom_id]})

\* INSERT INTO files_new .. SELECT MIN(f.id), d.dat_id, .. FROM files f JOIN
\* dirs d GROUP BY f.dir_id, f.name: one row for each group, with the
\* columns of the row of lowest id
MigrateFiles(d) ==
    {[id |-> f.id, dat_id |-> (CHOOSE x \in d.dirs : x.id = f.dir_id).dat_id,
      dir_id |-> f.dir_id, name |-> f.name, size |-> f.size, hash |-> f.hash] :
        f \in {g \in d.files : /\ \E x \in d.dirs : x.id = g.dir_id
                               /\ \A h \in d.files :
                                      (h.dir_id = g.dir_id /\ h.name = g.name) => g.id <= h.id}}

\* run_migrations: migration 1 when schema_version holds no row
run_migrations(d) ==
    IF d.schema_version # {} THEN [ok |-> TRUE, db |-> d]
    ELSE LET Migrated(r) ==
                 IF ~r.ok THEN [ok |-> FALSE, db |-> d]
                 ELSE [ok |-> TRUE,
                       db |-> [d EXCEPT !.matches = r.matches, !.files = MigrateFiles(d),
                                        !.schema_version = {1}]]
         IN  Migrated(MigrateMatches(d, SortById(d.files), 1, d.matches))

\* open_or_create: the CREATE .. IF NOT EXISTS statements change nothing in
\* a store that has the tables; the migrations run in one transaction
open_or_create(d) == Transaction(d, run_migrations(d))

LegacyNames == {"R.bin", "O.bin"}
LegacyLinks ==
    {[status |-> "none", set_id |-> 0, rom_id |-> 0],
     [status |-> "match", set_id |-> 1, rom_id |-> 1],
     [status |-> "name", set_id |-> 2, rom_id |-> 2],
     [status |-> "hash", set_id |-> 3, rom_id |-> 3]}
\* a file row of dir x: unmatched, or matched to a set and a rom of the dat
\* of the dir (dir 1 is of dat 1 with sets 1 and 2, dir 2 of dat 2 with set 3)
LegacyShapes ==
    {sh \in [dir_id : {1, 2}, name : LegacyNames, link : LegacyLinks] :
        sh.link.set_id = 0 \/ (sh.link.set_id = 3 <=> sh.dir_id = 2)}

\* the catalog and dir rows of every legacy store: two dats, a dir for each
LegacyBase ==
    [dats |-> {[id |-> i, name |-> "X", description |-> "d", version |-> "1",
                author |-> "a", hash_type |-> "sha1"] : i \in {1, 2}},
     sets |-> {[id |-> 1, dat_id |-> 1, name |-> "G1"], [id |-> 2, dat_id |-> 1, name |-> "G2"],
               [id |-> 3, dat_id |-> 2, name |-> "G1"]},
     roms |-> {[id |-> i, dat_id |-> IF i = 3 THEN 2 ELSE 1, set_id |-> i, name |-> "R.bin",
                size |-> 3, hash |-> HashA] : i \in {1, 2, 3}},
     dirs |-> {[id |-> i, dat_id |-> i, path |-> Root, parent_id |-> 0] : i \in {1, 2}},
     files |-> {}, matches |-> {}, schema_version |-> {}]

\* the legacy store whose file rows 1..Len(shapes) have the given shapes
LegacyDb(shapes) ==
    [LegacyBase EXCEPT !.files =
        {[id |-> i, dir_id |-> shapes[i].dir_id, name |-> shapes[i].name, size |-> 3,
          hash |-> HashA, status |-> shapes[i].link.status, set_id |-> shapes[i].link.set_id,
          rom_id |-> shapes[i].link.rom_id] : i \in 1..Len(shapes)}]

InitMigrate ==
    /\ \E n \in 0..MaxLegacyFiles : \E shapes \in [1..n -> LegacyShapes] : db = LegacyDb(shapes)
    /\ disk = DiskWith([p \in {Root} |-> DirNode])
    /\ last = [op |-> "init"]
    /\ steps = 0
    /\ changes = 0

\* the program opens the store
Open ==
    /\ steps < MaxOpens
    /\ \E r \in {open_or_create(db)} :
           /\ db' = r.db
           /\ last' = [op |-> "open", ok |-> r.ok, before |-> db]
    /\ steps' = steps + 1
    /\ UNCHANGED <<disk, changes>>

NextMigrate == Open

SpecMigrate == InitMigrate /\ [][NextMigrate]_vars

\* the last step opened a store without schema-version row
Migrated == last.op = "open" /\ last.before.schema_version = {}

\* the legacy file rows of the dir and the name of row f
GroupOf(f) == {g \in last.before.files : g.dir_id = f.dir_id /\ g.name = f.name}

\* what a match row says, and what a legacy file row with a status says
LinkOfMatch(m) == <<m.file_id, m.set_id, m.rom_id, m.status>>
LinkOfLegacy(f) == <<MinOf({g.id : g \in GroupOf(f)}), f.set_id, f.rom_id, f.status>>

\* C33: opening a legacy store leaves one file row for each (dir, name),
\* under the lowest legacy id of the group, and one match row for each
\* legacy file row of a status other than none, with the surviving file id
\* and the set, rom and status of the legacy row; version 1 is recorded, and
\* opening the store again changes nothing
C33_MigrationKeepsLinks ==
    /\ Migrated =>
          /\ last.ok
          /\ \A f \in last.before.files :
                 \E g \in db.files :
                     /\ g.dir_id = f.dir_id /\ g.name = f.name
                     /\ g.id = MinOf({h.id : h \in GroupOf(f)})
          /\ \A g \in db.files : \E f \in last.before.files : g.id = MinOf({h.id : h \in GroupOf(f)})
          /\ \A g, h \in db.files : (g.dir_id = h.dir_id /\ g.name = h.name) => g = h
          /\ \A f \in last.before.files :
                 f.status # "none" =>
                     Cardinality({m \in db.matches : LinkOfMatch(m) = LinkOfLegacy(f)})
                         = Cardinality({g \in last.before.files :
                                            g.status # "none" /\ LinkOfLegacy(g) = LinkOfLegacy(f)})
          /\ Cardinality(db.matches) = Cardinality({f \in last.before.files : f.status # "none"})
          /\ db.schema_version = {1}
    /\ (last.op = "open" /\ last.before.schema_version # {}) => (last.ok /\ db = last.before)

\* a legacy store where one file had rows for two roms was opened: one file
\* row is left, with two match rows
C33_Witness ==
    /\ Migrated
    /\ \E f, g \in last.before.files :
           /\ f.id < g.id /\ g \in GroupOf(f)
           /\ f.status # "none" /\ g.status # "none" /\ f.rom_id # g.rom_id
           /\ Cardinality({m \in db.matches : m.file_id = f.id}) >= 2
           /\ g.id \notin Ids(db.files)

(***************************************************************************)
(* Sizes in the store.  A u64 is kept here as three limbs of nine decimal  *)
(* digits, <<high, middle, low>>, so that every value below 2^64 is        *)
(* written exactly.  SpecSize writes sizes to a column through SizeWrapper *)
(* and reads the column back, MaxSizeOps times at most; the column starts  *)
(* with any of StoredCells.                                                *)
(***************************************************************************)
MaxSizeOps == 2
LimbDigits == 9
U64Digits == 20
U64Max == <<18, 446744073, 709551615>>

LimbsLeq(a, b) ==
    \/ a[1] < b[1]
    \/ a[1] = b[1] /\ a[2] < b[2]
    \/ a[1] = b[1] /\ a[2] = b[2] /\ a[3] <= b[3]

RECURSIVE StripZeros(_)
StripZeros(s) ==
    IF s # "" /\ CharAt(s, 1) = "0" THEN StripZeros(SubSeq(s, 2, Len(s))) ELSE s

RECURSIVE PadLeft(_, _)
PadLeft(s, n) == IF Len(s) >= n THEN s ELSE PadLeft("0" \o s, n)

\* the decimal digits of a limb
RECURSIVE DecimalOf(_)
DecimalOf(n) ==
    IF n < 10 THEN CharAt(Digits, n + 1)
    ELSE DecimalOf(n \div 10) \o CharAt(Digits, (n % 10) + 1)

\* a to_string that writes the low limb only
u64_to_string_low_limb(v) == DecimalOf(v[3])

\* u64::to_string
u64_to_string(v) ==
    LET Shortest(s) == IF s = "" THEN "0" ELSE s
    IN  Shortest(StripZeros(DecimalOf(v[1]) \o PadLeft(DecimalOf(v[2]), LimbDigits)
                                             \o PadLeft(DecimalOf(v[3]), LimbDigits)))

\* str::parse::<u64>: an optional plus sign, then digits only, at least one;
\* a value of 2^64 or more is an error (PosOverflow)
u64_from_str(s) ==
    LET t == IF Len(s) > 0 /\ CharAt(s, 1) = "+" THEN SubSeq(s, 2, Len(s)) ELSE s
        Err == [ok |-> FALSE, val |-> <<0, 0, 0>>]
        Value(z) ==
            IF Len(z) > U64Digits THEN Err
            ELSE LET Limbs(p) == <<DecimalValue(SubSeq(p, 1, LimbDigits)),
                                   DecimalValue(SubSeq(p, LimbDigits + 1, 2 * LimbDigits)),
                                   DecimalValue(SubSeq(p, 2 * LimbDigits + 1, 3 * LimbDigits))>>
                     Checked(v) == IF LimbsLeq(v, U64Max) THEN [ok |-> TRUE, val |-> v] ELSE Err
                 IN  Checked(Limbs(PadLeft(z, 3 * LimbDigits)))
    IN  IF Len(t) = 0 \/ \E i \in 1..Len(t) : ~IsDigit(CharAt(t, i))
        THEN Err
        ELSE Value(StripZeros(t))

\* ToSql for SizeWrapper: the value as text
to_sql(v) == [kind |-> "text", text |-> u64_to_string(v)]

\* FromSql for SizeWrapper: as_str fails on a value that is no text, and a
\* text that does not parse is InvalidType
column_result(value) ==
    IF value.kind # "text" THEN [ok |-> FALSE, val |-> <<0, 0, 0>>]
    ELSE u64_from_str(value.text)

\* the sizes written: every combination of these limbs below 2^64
SizeValues ==
    {v \in {0, 18} \X {0, 1, 446744073, 999999999}
           \X {0, 7, 10, 709551615, 709551616, 999999999} : LimbsLeq(v, U64Max)}

\* what the column may hold before anything is written
StoredCells ==
    {[kind |-> "text", text |-> s] :
        s \in {"", "+", "+5", "-1", "007", "1x", " 1", "1.0", "0", "18446744073709551615",
               "18446744073709551616", "99999999999999999999", "100000000000000000000",
               "000000000000000000001"}}
    \cup {[kind |-> k, text |-> ""] : k \in {"null", "integer", "blob"}}

InitSize ==
    /\ db \in StoredCells
    /\ disk = DiskWith([p \in {Root} |-> DirNode])
    /\ last = [op |-> "init"]
    /\ steps = 0
    /\ changes = 0

\* a row is inserted with size v
WriteSize(v) ==
    /\ steps < MaxSizeOps
    /\ db' = to_sql(v)
    /\ last' = [op |-> "write", val |-> v]
    /\ steps' = steps + 1
    /\ UNCHANGED <<disk, changes>>

\* the row is read back
ReadSize ==
    /\ steps < MaxSizeOps
    /\ last' = [op |-> "read", result |-> column_result(db),
                written |-> IF last.op = "write" THEN [some |-> TRUE, val |-> last.val]
                            ELSE [some |-> FALSE, val |-> <<0, 0, 0>>]]
    /\ steps' = steps + 1
    /\ UNCHANGED <<db, disk, changes>>

NextSize ==
    \/ \E v \in SizeValues : WriteSize(v)
    \/ ReadSize

SpecSize == InitSize /\ [][NextSize]_vars

\* s is a decimal numeral (digits, after an optional plus sign) of a value
\* below 2^64, and the shortest numeral of that value
Unsigned(s) == IF Len(s) > 0 /\ CharAt(s, 1) = "+" THEN SubSeq(s, 2, Len(s)) ELSE s
IsU64Numeral(s) ==
    LET t == Unsigned(s)
        z == StripZeros(t)
    IN  /\ t # "" /\ \A i \in 1..Len(t) : IsDigit(CharAt(t, i))
        /\ \/ Len(z) < U64Digits
           \/ Len(z) = U64Digits /\ ~StrLess("18446744073709551615", z)
ShortestNumeral(s) == IF StripZeros(Unsigned(s)) = "" THEN "0" ELSE StripZeros(Unsigned(s))

\* C34: a size written through SizeWrapper and read back is the size
\* written; a stored value that is no text, or no decimal numeral of a value
\* below 2^64, is read as an error, and a numeral is read as exactly its value
C34_SizeRoundTrip ==
    last.op = "read" =>
        /\ last.written.some => (last.result.ok /\ last.result.val = last.written.val)
        /\ IF db.kind = "text" /\ IsU64Numeral(db.text)
           THEN last.result.ok /\ u64_to_string(last.result.val) = ShortestNumeral(db.text)
           ELSE ~last.result.ok

\* 2^64 - 1 was written and read back
C34_Witness ==
    /\ last.op = "read" /\ last.written.some
    /\ last.written.val = U64Max
    /\ db.text = "18446744073709551615"
    /\ last.result.ok

====
